---- MODULE Spec2Model ----
(***************************************************************************)
(* Drupal ACR pipeline: Collector (extract-wcag-issues.js), Summarizer     *)
(* (generate-issue-summaries.js), Aggregator (consolidate-wcag-summaries)  *)
(* and Renderer (convert-to-openacr.js).  Every stage is a sequential      *)
(* batch job; each has its own specification over the shared variables:    *)
(*   SpecRenderer, SpecCollector, SpecAggregator, SpecSummarizer.          *)
(* JavaScript strings are TLA+ strings; Len, SubSeq and \o act on them.    *)
(***************************************************************************)
EXTENDS Integers, Sequences, FiniteSets, TLC

VARIABLES
  \* ---- Renderer (convert-to-openacr.js) ----
  consolidatedData,   \* rows of the Aggregator artifact handed to generateOpenACR
  templateExists,     \* whether drupal-template.yaml is on disk
  rpc,                \* position inside generateOpenACR
  ridx,               \* index of the next row of the first forEach
  levelACriteria,     \* the three local lists of generateOpenACR
  levelAACriteria,
  levelAAACriteria,
  yamlSections,       \* the criterion sections appended to the document
  run,                \* 1 = first process run, 2 = the re-run on the same artifact
  firstSections,      \* what run 1 produced (kept to compare the re-run with)
  \* ---- Collector (extract-wcag-issues.js) ----
  cpc,                \* position inside generateDetailedIssuesList
  ci,                 \* index of the criterion the loop is at (i + 1)
  allIssues,          \* the accumulated issue records
  processedCount,
  successCount,
  blockedCount,
  csvRows,            \* the rows of the written artifact (<<>> while none is written)
  \* ---- Aggregator (consolidateWCAGSummaries) ----
  detailedIssues,     \* parsed rows of the Collector file: 'WCAG SC' and 'Issue ID'
  summaryIds,         \* the issue ids that have a row in the Summarizer file
  wcagGroups,         \* the Map of groups, in insertion order
  apc,                \* position inside consolidateWCAGSummaries
  gi,                 \* index of the group (main loop) or failed entry (retry pass)
  attempt,            \* the attempt counter of the running fetchWithRetry call
  only503,            \* every answer of the running call so far was HTTP 503
  results,
  failedEntries,
  aProcessedCount,    \* processedCount of consolidateWCAGSummaries
  lastCall,           \* the generateWCAGSummary call that returned last
  acrRows,            \* the rows of the written consolidated artifact
  \* ---- Summarizer (generateSummaries) ----
  spc,                \* position inside generateSummaries
  sAttempt,           \* the attempt counter of the running fetchWithRetry call
  responseText,       \* the text of the AI response that was parsed (null while none)
  summaries,          \* what generateSummaries returned (null while it runs)
  \* ---- Summarizer (processIssues) ----
  ppc,                \* position inside processIssues
  sIssues,            \* the parsed records of the input file (issues)
  sIdx,               \* index of the record the loop is at
  issueContent,       \* what fetchIssueContent returned for that record
  sResults,           \* results of processIssues
  sProcessedCount,    \* processedCount of processIssues
  errorCount,
  summaryRows,        \* the rows of the written summaries artifact
  \* ---- Collector (extractIssuesFromCriteria) ----
  xpc,                \* position inside extractIssuesFromCriteria
  xCode,              \* the criterion code it was called with
  attemptNumber,
  cooldowns,          \* the minutes of the cooldown waits made so far, in order
  onlyBlocked,        \* every try so far got 403 from the search page and an error status from the feed
  xReturned,          \* the list extractIssuesFromCriteria returned
  \* ---- Collector (fetchWithTimeout) ----
  fpc,                \* position inside fetchWithTimeout
  fRetries,           \* the retries argument of the running call
  fAttempt,           \* the attempt counter of the running call
  requestCount,
  sessionCookies,
  fBackoffs,          \* the backoff waits of the running call, in ms without the jitter
  fResult,            \* how the last call ended: a response or a thrown error
  \* ---- Stage processes: start-up, results directory and artifact names ----
  upc,                \* position of the stage process: ready, running or exited
  uStage,             \* the stage script of the running process
  envKey,             \* process.env.GEMINI_API_KEY when the process starts (empty: not set)
  dotEnv,             \* the .env file of the working directory
  argv,               \* process.argv.slice(2)
  resultsDir,         \* the results directory: whether it exists, and its file names
  clock,              \* seconds since 2025-01-01T10:00:00Z
  runs,               \* stage processes started so far
  requested,          \* the running process has made a network request
  wrote,              \* the running process has written its artifact
  exitCode,           \* exit status of the last process (-1 while it runs)
  overwrote,          \* some write replaced a file that was already in the directory
  \* ---- Orchestrator (run-acr-workflow.js) ----
  opc,                \* position of main: start, loop, child or exited
  oArgs,              \* process.argv.slice(2)
  hasApiKey,          \* process.env.GEMINI_API_KEY is set or .env exists
  options,            \* the parsed command line
  stepsToRun,         \* the steps main will execute, in order
  oIdx,               \* index of the next step in stepsToRun
  spawnLog,           \* the stage processes spawned so far and how each ended
  oExit,              \* exit status of the orchestrator (-1 while it runs)
  \* ---- Collector (criterion loop: tallies and pauses) ----
  kpc,                \* position of generateDetailedIssuesList: loop or done
  ki,                 \* the loop index i
  outcomes,           \* what extractIssuesFromCriteria did for each criterion so far
  kProcessedCount,    \* processedCount of the loop
  kSuccessCount,      \* successCount of the loop
  kBlockedCount,      \* blockedCount of the loop
  baseDelay,          \* the last baseDelay computed, in ms
  longPauses,         \* the 10-20 s pauses made: after which index, at which successCount
  \* ---- CSV artifacts: one stage writes, the next reads ----
  vpc,                \* position: rows, written or parsed
  rowsToWrite,        \* the rows the writing stage holds, each a tuple of field values
  csvOutput,          \* the text of the artifact
  parsedRows,         \* what parseCSV returns for the artifact
  \* ---- Tier: one criterion code seen by the Collector and by the Renderer ----
  tpc,                \* position: "listed", "tagged", "bucketed", "dropped" or "idle"
  tierIndex,          \* index of the code in the Collector's wcagCriteria
  collectorLevel,     \* the level the Collector's list carries for the code
  rendererLevel       \* the tier section the Renderer puts the code in

rvars == <<consolidatedData, templateExists, rpc, ridx, levelACriteria,
           levelAACriteria, levelAAACriteria, yamlSections, run, firstSections>>

cvars == <<cpc, ci, allIssues, processedCount, successCount, blockedCount, csvRows>>

avars == <<detailedIssues, summaryIds, wcagGroups, apc, gi, attempt, only503, results,
           failedEntries, aProcessedCount, lastCall, acrRows>>

svars == <<spc, sAttempt, responseText, summaries>>

pvars == <<ppc, sIssues, sIdx, issueContent, sResults, sProcessedCount, errorCount, summaryRows>>

xvars == <<xpc, xCode, attemptNumber, cooldowns, onlyBlocked, xReturned>>

fvars == <<fpc, fRetries, fAttempt, requestCount, sessionCookies, fBackoffs, fResult>>

uvars == <<upc, uStage, envKey, dotEnv, argv, resultsDir, clock, runs, requested, wrote, exitCode, overwrote>>

ovars == <<opc, oArgs, hasApiKey, options, stepsToRun, oIdx, spawnLog, oExit>>

kvars == <<kpc, ki, outcomes, kProcessedCount, kSuccessCount, kBlockedCount, baseDelay, longPauses>>

csvvars == <<vpc, rowsToWrite, csvOutput, parsedRows>>

tvars == <<tpc, tierIndex, collectorLevel, rendererLevel>>

vars == <<rvars, cvars, avars, svars, pvars, xvars, fvars, uvars, ovars, kvars, csvvars, tvars>>

\* what a step of one stage leaves alone: the variables of the other stages
nonRenderer == <<cvars, avars, svars, pvars, xvars, fvars, uvars, ovars, kvars, csvvars, tvars>>
nonCollector == <<rvars, avars, svars, pvars, xvars, fvars, uvars, ovars, kvars, csvvars, tvars>>
nonAggregator == <<rvars, cvars, svars, pvars, xvars, fvars, uvars, ovars, kvars, csvvars, tvars>>
nonSummarizer == <<rvars, cvars, avars, pvars, xvars, fvars, uvars, ovars, kvars, csvvars, tvars>>
nonProcessIssues == <<rvars, cvars, avars, svars, xvars, fvars, uvars, ovars, kvars, csvvars, tvars>>
nonExtract == <<rvars, cvars, avars, svars, pvars, fvars, uvars, ovars, kvars, csvvars, tvars>>
nonFetch == <<rvars, cvars, avars, svars, pvars, xvars, uvars, ovars, kvars, csvvars, tvars>>
nonRun == <<rvars, cvars, avars, svars, pvars, xvars, fvars, ovars, kvars, csvvars, tvars>>
nonOrchestrator == <<rvars, cvars, avars, svars, pvars, xvars, fvars, uvars, kvars, csvvars, tvars>>
nonCadence == <<rvars, cvars, avars, svars, pvars, xvars, fvars, uvars, ovars, csvvars, tvars>>
nonCsv == <<rvars, cvars, avars, svars, pvars, xvars, fvars, uvars, ovars, kvars, tvars>>
nonTier == <<rvars, cvars, avars, svars, pvars, xvars, fvars, uvars, ovars, kvars, csvvars>>

(***************************************************************************)
(* String helpers (String.prototype methods used by the scripts)           *)
(***************************************************************************)
startsWith(s, p) == Len(s) >= Len(p) /\ SubSeq(s, 1, Len(p)) = p

endsWith(s, p) == Len(s) >= Len(p) /\ SubSeq(s, Len(s) - Len(p) + 1, Len(s)) = p

\* s.slice(n): the text from 0-based position n on
slice(s, n) == SubSeq(s, n + 1, Len(s))

\* s[i], 0-based
charAt(s, i) == SubSeq(s, i + 1, i + 1)

\* s.indexOf(t): 0-based position of the first occurrence, -1 when absent
indexOf(s, t) ==
  LET hits == {i \in 0..(Len(s) - Len(t)) : SubSeq(s, i + 1, i + Len(t)) = t}
  IN  IF hits = {} THEN -1 ELSE CHOOSE i \in hits : \A j \in hits : i <= j

includes(s, t) == indexOf(s, t) # -1

\* s.replace(/a/g, b) for a one-character pattern a
RECURSIVE replaceAll(_, _, _)
replaceAll(s, a, b) ==
  IF s = "" THEN ""
  ELSE (IF SubSeq(s, 1, 1) = a THEN b ELSE SubSeq(s, 1, 1))
         \o replaceAll(SubSeq(s, 2, Len(s)), a, b)

WhiteSpace == {" ", "\n", "\r", "\t"}

RECURSIVE trimStart(_)
trimStart(s) ==
  IF s # "" /\ SubSeq(s, 1, 1) \in WhiteSpace THEN trimStart(SubSeq(s, 2, Len(s))) ELSE s

RECURSIVE trimEnd(_)
trimEnd(s) ==
  IF s # "" /\ SubSeq(s, Len(s), Len(s)) \in WhiteSpace
  THEN trimEnd(SubSeq(s, 1, Len(s) - 1)) ELSE s

trim(s) == trimEnd(trimStart(s))

\* elements of a sequence, and a sequence without repeated elements
Range(q) == {q[i] : i \in 1..Len(q)}

\* Array.prototype.includes
arrayIncludes(q, x) == \E i \in 1..Len(q) : q[i] = x

(***************************************************************************)
(* Renderer: static tables and pure functions                              *)
(***************************************************************************)

\* Property names every object literal inherits from Object.prototype: a
\* lookup mapping[key] with one of these keys yields a (truthy) function or
\* object instead of undefined.
ObjectPrototypeKeys ==
  {"constructor", "toString", "toLocaleString", "valueOf", "hasOwnProperty",
   "isPrototypeOf", "propertyIsEnumerable", "__proto__", "__defineGetter__",
   "__defineSetter__", "__lookupGetter__", "__lookupSetter__"}

\* what the template literal `${value}` prints for an inherited member
InheritedMemberText(key) ==
  IF key = "__proto__" THEN "[object Object]"
  ELSE IF key = "constructor" THEN "function Object() { [native code] }"
  ELSE "function " \o key \o "() { [native code] }"

AdherenceMapping ==
  ("SUPPORTED" :> "supports") @@
  ("PARTIALLY_SUPPORTED" :> "partially-supports") @@
  ("NOT_SUPPORTED" :> "does-not-support") @@
  ("NOT_APPLICABLE" :> "not-applicable") @@
  ("REQUIRES_REVIEW" :> "not-evaluated") @@
  ("ERROR" :> "not-evaluated")

\* mapping[assessment] || 'not-evaluated'
convertAssessmentToAdherence(assessment) ==
  IF assessment \in DOMAIN AdherenceMapping THEN AdherenceMapping[assessment]
  ELSE IF assessment \in ObjectPrototypeKeys THEN InheritedMemberText(assessment)
  ELSE "not-evaluated"

specialMappings ==
  ("1410" :> "1.4.10") @@ ("1411" :> "1.4.11") @@ ("1412" :> "1.4.12") @@
  ("2411" :> "2.4.11") @@ ("233" :> "2.3.3") @@ ("248" :> "2.4.8") @@
  ("249" :> "2.4.9") @@ ("255" :> "2.5.5") @@ ("258" :> "2.5.8") @@
  ("325" :> "3.2.5") @@ ("336" :> "3.3.6")

\* 'wcag111' -> '1.1.1'; anything it cannot convert is returned unchanged
convertWCAGFormat(wcagSC) ==
  IF wcagSC = "" \/ ~startsWith(wcagSC, "wcag") THEN wcagSC
  ELSE LET numbers == slice(wcagSC, 4) IN
       IF numbers \in DOMAIN specialMappings THEN specialMappings[numbers]
       ELSE IF Len(numbers) = 3
         THEN charAt(numbers, 0) \o "." \o charAt(numbers, 1) \o "." \o charAt(numbers, 2)
       ELSE IF Len(numbers) = 4 /\ charAt(numbers, 0) \in {"1", "2", "3", "4"}
         THEN charAt(numbers, 0) \o "." \o charAt(numbers, 1) \o "." \o slice(numbers, 2)
       ELSE wcagSC

wcagPositiveStatements ==
  << <<"1.1.1", "Images and form elements have text alternatives that adequately describe the purpose and meaning">>,
     <<"1.2.1", "Prerecorded audio and video are presented with captions, transcripts, or links to equivalent content">>,
     <<"1.2.2", "Audio recordings and videos with sound have synchronized captions">>,
     <<"1.2.3", "Audio description is provided for pre-recorded video">>,
     <<"1.3.1", "The meaning conveyed by visual elements is the same when communicated programmatically for assistive technology users">>,
     <<"1.3.2", "Keyboard users navigate the page in the same order the content is presented (top down, left to right)">>,
     <<"1.3.3", "Descriptions and instructions don't rely on visual cues, like color or position">>,
     <<"1.4.1", "Links and form elements use more than color (underlines, outlines) to convey state">>,
     <<"1.4.2", "Users can pause or stop automated audio/video and control its volume in the UI">>,
     <<"2.1.1", "Interactive elements are navigable and usable with keyboard commands">>,
     <<"2.1.2", "Users can move focus to/from interactive elements with keyboard alone">>,
     <<"2.1.4", "Custom character shortcuts are scoped to a focus event, use modifier keys, or can be customized or disabled">>,
     <<"2.2.1", "Users can turn off or modify timers or time limits">>,
     <<"2.2.2", "Users can pause animations or auto-updating content">>,
     <<"2.3.1", "Pages don't have flashing content that exceeds flashing content thresholds">>,
     <<"2.4.1", "Users can skip repeated navigation elements and go straight to main content">>,
     <<"2.4.2", "Web pages have a descriptive title">>,
     <<"2.4.3", "Focusable elements appear in the same order the content is presented (top down, left to right)">>,
     <<"2.4.4", "Screen reader users can determine a link's purpose by its text and surrounding context">>,
     <<"2.5.1", "Alternative methods using tap or a click are provided for path-based gestures (scrolling, drawing, zooming the page)">>,
     <<"2.5.2", "Users can dismiss, cancel, or undo single-pointer actions">>,
     <<"2.5.3", "Interactive elements have a programmatically derived accessible name that begins with or matches its visible label">>,
     <<"2.5.4", "Motion actuation functionality can be disabled to prevent accidental triggering">>,
     <<"3.1.1", "Pages have a 'lang' attribute that identifies the main language used for content">>,
     <<"3.2.1", "No major changes to the page that could disorient users are made on focus">>,
     <<"3.2.2", "No major changes to the page that could disorient users are made when a field changes value, unless the change is expected">>,
     <<"3.3.1", "Error messages are provided in text">>,
     <<"3.3.2", "Fields for user input have text labels or instructions">>,
     <<"4.1.1", "Parsing of markup does not cause errors for assistive technologies">>,
     <<"4.1.2", "Interactive elements have a programmatically derived accessible name, role, and value/state">>,
     <<"1.2.4", "Live audio/video feeds have captions">>,
     <<"1.2.5", "Meaningful information that's not conveyed in dialogue is described in captions">>,
     <<"1.3.4", "On a mobile device, the site is fully functional whether in portrait or landscape orientation">>,
     <<"1.3.5", "Form inputs are correctly labeled for screen reader users">>,
     <<"1.4.3", "Text and links meet and often exceed minimum color contrast requirements">>,
     <<"1.4.4", "The site remains legible and fully functional when users zoom the screen by 200% or more">>,
     <<"1.4.5", "Text is only baked into an image when it needs to be, like for the site logo">>,
     <<"1.4.10", "The site uses responsive development techniques so that content and functionality are retained regardless of device or viewport size (mobile, tablet, desktop)">>,
     <<"1.4.11", "Form elements and buttons meet and often exceed minimum color contrast requirements">>,
     <<"1.4.12", "Line height, letter, paragraph, and word spacing meet size requirements relative to font size">>,
     <<"1.4.13", "Tooltips, which appear on hover and focus, persist until the user moves the pointer or focus elsewhere">>,
     <<"2.4.5", "Users can reach pages by using search, global navigation, sidebar navigation, or links within page content">>,
     <<"2.4.6", "Headings and labels are accurately described">>,
     <<"2.4.7", "Interactive elements have a visible focus state when navigating by keyboard">>,
     <<"2.4.11", "Interactive elements are at least partially visible (not obscured by other content) when focused">>,
     <<"2.5.7", "When dragging actions are required, users have an alternate, single-pointer action like tap or click to perform the same task">>,
     <<"2.5.8", "Interactive elements are at least 24x24 pixels or have sufficient space around them to prevent errant clicks, unless they're part of a sentence">>,
     <<"3.1.2", "Sections of content that do not use the main page language have a 'lang' attribute that identifies the language used">>,
     <<"3.2.3", "Navigation elements appear in the same location and order across the site">>,
     <<"3.2.4", "Interactive elements with the same function have the same name, role, and behavior">>,
     <<"3.3.3", "Corrective actions are suggested when users make an input error">>,
     <<"3.3.4", "Forms that collect user data can be reviewed and confirmed or corrected">>,
     <<"4.1.3", "Status messages are announced to users without having to focus on status message content">>,
     <<"1.2.6", "Sign Language interpretation is provided for audio content">>,
     <<"1.2.7", "Extended audio description is provided for video content where pauses in dialogue are insufficient">>,
     <<"1.2.8", "A full text alternative is provided for pre-recorded synchronized media">>,
     <<"1.2.9", "Audio-only live content has alternative access methods">>,
     <<"1.3.6", "The purpose of user interface components can be programmatically determined">>,
     <<"1.4.6", "Text has a contrast ratio of at least 7:1 with its background">>,
     <<"1.4.7", "Audio content has minimal or no background noise to aid comprehension">>,
     <<"1.4.8", "Text presentation can be customized without loss of content or functionality">>,
     <<"1.4.9", "Images of text are used only for decoration or when essential to the information">>,
     <<"2.1.3", "All page functionality is available from a keyboard without requiring specific timings">>,
     <<"2.2.3", "Timing is not an essential part of the event or activity">>,
     <<"2.2.4", "Interruptions can be postponed or suppressed by the user">>,
     <<"2.2.5", "When a session expires, the user can continue without loss of data">>,
     <<"2.2.6", "Users are warned of the duration of inactivity that will cause data loss">>,
     <<"2.3.2", "Web pages do not contain content that flashes more than three times in any one second period">>,
     <<"2.3.3", "Animation from interactions can be disabled unless essential to functionality">>,
     <<"2.4.8", "Information about the user's location within a website is available">>,
     <<"2.4.9", "Link purpose can be identified from link text alone">>,
     <<"2.4.10", "Section headings are used to organize content">>,
     <<"2.5.5", "The size of the target for pointer inputs is at least 44 by 44 CSS pixels">>,
     <<"2.5.6", "Input mechanisms are available for users who cannot perform complex gestures">>,
     <<"3.1.3", "The meaning of unusual words, phrases, idioms, and abbreviations can be determined">>,
     <<"3.1.4", "The expansion or explanation of abbreviations can be determined">>,
     <<"3.1.5", "Reading level is lower secondary education level or supplemental content is available">>,
     <<"3.1.6", "The pronunciation of words where meanings is ambiguous can be determined">>,
     <<"3.2.5", "Changes of context are initiated only by user request or a mechanism is available to turn off such changes">>,
     <<"3.3.5", "Context-sensitive help is available">>,
     <<"3.3.6", "Error prevention mechanisms are provided for submissions that are irreversible or financial">> >>


\* JavaScript null (getPositiveStatement's "no statement")
null == "<null>"

\* JavaScript undefined, as the value of a property an object lacks
undefined == "<undefined>"

\* A mutant of getPositiveStatement: the table is never consulted.
getPositiveStatementNone(wcagNum) == null

\* wcagPositiveStatements[wcagNum] || null
getPositiveStatement(wcagNum) ==
  LET hits == {i \in 1..Len(wcagPositiveStatements) : wcagPositiveStatements[i][1] = wcagNum}
  IN  IF hits = {} THEN null ELSE wcagPositiveStatements[CHOOSE i \in hits : TRUE][2]

naList ==
  <<"1.2.1", "1.2.3", "1.2.4", "1.2.5", "1.4.2", "2.1.4", "2.2.1", "2.2.2",
    "2.3.1", "2.5.4", "4.1.1">>

\* A mutant of isNotApplicable: 'Timing Adjustable' is missing from the list.
isNotApplicableButTiming(wcagNum) == arrayIncludes(naList, wcagNum) /\ wcagNum # "2.2.1"

\* A mutant of wcag22Criteria: nothing is excluded.
wcag22CriteriaNone == <<>>

isNotApplicable(wcagNum) == arrayIncludes(naList, wcagNum)

wcag22Criteria == <<"2.4.11", "2.4.12", "2.4.13", "2.5.7", "2.5.8", "3.2.6", "3.3.7">>

levelATable ==
  <<"1.1.1", "1.2.1", "1.2.2", "1.2.3", "1.3.1", "1.3.2", "1.3.3",
    "1.4.1", "1.4.2", "2.1.1", "2.1.2", "2.1.4", "2.2.1", "2.2.2",
    "2.3.1", "2.4.1", "2.4.2", "2.4.3", "2.4.4", "2.5.1", "2.5.2",
    "2.5.3", "2.5.4", "3.1.1", "3.2.1", "3.2.2", "3.3.1", "3.3.2",
    "4.1.1", "4.1.2">>

levelAATable ==
  <<"1.2.4", "1.2.5", "1.3.4", "1.3.5", "1.4.3", "1.4.4", "1.4.5",
    "1.4.10", "1.4.11", "1.4.12", "1.4.13", "2.4.5", "2.4.6", "2.4.7",
    "3.1.2", "3.2.3", "3.2.4", "3.3.3", "3.3.4", "4.1.3">>

levelAAATable ==
  <<"1.2.6", "1.2.7", "1.2.8", "1.2.9", "1.3.6", "1.4.6", "1.4.7",
    "1.4.8", "1.4.9", "2.1.3", "2.2.3", "2.2.4", "2.2.5", "2.2.6",
    "2.3.2", "2.3.3", "2.4.8", "2.4.9", "2.4.10", "2.5.5", "2.5.6",
    "3.1.3", "3.1.4", "3.1.5", "3.1.6", "3.2.5", "3.3.5",
    "3.3.6">>

\* A mutant of getWCAGLevel: a code of no table falls through to the last tier.
getWCAGLevelDefaultAAA(wcagNum) ==
  IF arrayIncludes(levelATable, wcagNum) THEN "A"
  ELSE IF arrayIncludes(levelAATable, wcagNum) THEN "AA"
  ELSE "AAA"

getWCAGLevel(wcagNum) ==
  IF arrayIncludes(levelATable, wcagNum) THEN "A"
  ELSE IF arrayIncludes(levelAATable, wcagNum) THEN "AA"
  ELSE IF arrayIncludes(levelAAATable, wcagNum) THEN "AAA"
  ELSE "AA"

escapeYAML(str) ==
  IF str = "" THEN "\"\""
  ELSE LET cleaned == replaceAll(replaceAll(replaceAll(replaceAll(str,
                        "\\", "\\\\"), "\"", "\\\""), "\n", "\\n"), "\r", "\\r")
       IN  IF \/ includes(cleaned, ":") \/ includes(cleaned, "#")
              \/ includes(cleaned, "\n") \/ includes(cleaned, "\r")
              \/ includes(cleaned, "\"") \/ includes(cleaned, "|")
              \/ trim(cleaned) # cleaned \/ includes(cleaned, "  ")
           THEN "\"" \o cleaned \o "\""
           ELSE cleaned

formatYAMLMultiline(text, indent) ==
  IF text = "" THEN "\"\""
  ELSE IF Len(text) > 80 \/ includes(text, "\n")
    THEN ">-\n" \o indent \o "  " \o replaceAll(text, "\n", "\n" \o indent \o "  ")
  ELSE escapeYAML(text)

(***************************************************************************)
(* Renderer: generateOpenACR as a state machine                            *)
(***************************************************************************)

\* A row of the artifact: the columns 'WCAG SC', 'ACR Assessment',
\* 'ACR Summary', 'Issue Count', 'Issue IDs' (the count is kept as a number).
Row(sc, assessment, summary, count, ids) ==
  [sc |-> sc, assessment |-> assessment, summary |-> summary, count |-> count, ids |-> ids]

MaxRows == 2

AssessmentInputs ==
  {"SUPPORTED", "PARTIALLY_SUPPORTED", "NOT_SUPPORTED", "NOT_APPLICABLE",
   "REQUIRES_REVIEW", "ERROR", "", "UNKNOWN", "constructor"}

\* The rows the artifact is drawn from: one criterion with every upstream
\* level; a forced-not-applicable code in both spellings; an excluded code;
\* a code of each tier; a code in no tier table; a code the conversion
\* leaves unchanged; empty and multi-line narratives; a group without members.
TestRows ==
  {Row("wcag111", a, "X", 2, "101, 102") : a \in AssessmentInputs}
  \cup {Row("wcag221", "SUPPORTED", "X", 1, "103"),
        Row("2.2.1", "SUPPORTED", "", 0, ""),
        Row("wcag2411", "SUPPORTED", "X", 1, "104"),
        Row("wcag1413", "PARTIALLY_SUPPORTED", "A: b\nC", 1, "105"),
        Row("wcag126", "NOT_SUPPORTED", "", 1, "106"),
        Row("wcag999", "SUPPORTED", "X", 1, "107"),
        Row("wcag5123", "NOT_SUPPORTED", "X", 1, "109")}

\* item['ACR Summary'] || 'No assessment available'
summaryOrDefault(summary) == IF summary = "" THEN "No assessment available" ELSE summary

\* The criterion object built for one row (lines 318-343).  `item` is not a
\* field of the source object: it records the index of the row the criterion
\* was built from (0 for a synthesized one) so that properties can relate
\* output to input.
renderCriterion(row, i) ==
  LET wcagNum == convertWCAGFormat(row.sc)
      adherenceLevel == convertAssessmentToAdherence(row.assessment)
      notes == summaryOrDefault(row.summary)
      positiveStatement == getPositiveStatement(wcagNum)
  IN  [num |-> wcagNum,
       adherenceLevel |-> IF isNotApplicable(wcagNum) THEN "not-applicable" ELSE adherenceLevel,
       notes |-> IF isNotApplicable(wcagNum) THEN "Not applicable."
                 ELSE IF adherenceLevel = "supports" /\ positiveStatement \notin {null, ""}
                   THEN positiveStatement
                 ELSE notes,
       issueCount |-> row.count,
       issueIds |-> row.ids,
       item |-> i]

\* the synthesized criterion of a forced-not-applicable code without a row
missingCriterion(wcagNum) ==
  [num |-> wcagNum, adherenceLevel |-> "not-applicable", notes |-> "Not applicable.",
   issueCount |-> 0, issueIds |-> "", item |-> 0]

\* if (wcagLevel === 'A') ... else if (wcagLevel === 'AA') ... else ...
bucket(lists, criterion) ==
  LET wcagLevel == getWCAGLevel(criterion.num) IN
  IF wcagLevel = "A" THEN [lists EXCEPT !.a = Append(@, criterion)]
  ELSE IF wcagLevel = "AA" THEN [lists EXCEPT !.aa = Append(@, criterion)]
  ELSE [lists EXCEPT !.aaa = Append(@, criterion)]

\* A mutant of processedWcagNums: the rows already rendered are forgotten.
processedWcagNumsForgotten(data) == {}

\* the Set built by the second forEach (lines 358-364)
processedWcagNums(data) ==
  {convertWCAGFormat(data[i].sc) : i \in 1..Len(data)} \ Range(wcag22Criteria)

\* naList.forEach from position k on (lines 366-388)
RECURSIVE addMissing(_, _, _)
addMissing(lists, processed, k) ==
  IF k > Len(naList) THEN lists
  ELSE addMissing(IF naList[k] \notin processed
                    THEN bucket(lists, missingCriterion(naList[k]))
                    ELSE lists,
                  processed, k + 1)

NotesIndent == "              "

\* one '- num:' block of a criteria list: four component slots
yamlEntry(criterion) ==
  LET notes == formatYAMLMultiline(criterion.notes, NotesIndent) IN
  [num |-> criterion.num,
   components |->
     << [name |-> "web", level |-> criterion.adherenceLevel, notes |-> notes],
        [name |-> "electronic-docs", level |-> "not-applicable", notes |-> "\"\""],
        [name |-> "software", level |-> "not-applicable", notes |-> "\"\""],
        [name |-> "authoring-tool", level |-> criterion.adherenceLevel, notes |-> notes] >>]

yamlCriteria(list) == [i \in 1..Len(list) |-> yamlEntry(list[i])]

NoSections == [a |-> <<>>, aa |-> <<>>, aaa |-> <<>>, aaEmpty |-> FALSE, aaaEmpty |-> FALSE]

RendererInit ==
  /\ consolidatedData \in UNION {[1..n -> TestRows] : n \in 0..MaxRows}
  /\ templateExists \in BOOLEAN
  /\ rpc = "start"
  /\ ridx = 1
  /\ levelACriteria = <<>>
  /\ levelAACriteria = <<>>
  /\ levelAAACriteria = <<>>
  /\ yamlSections = NoSections
  /\ run = 1
  /\ firstSections = NoSections

\* A mutant of GenerateStart: the three lists live outside the function and
\* keep what an earlier call left in them.
GenerateStartStale ==
  /\ rpc = "start"
  /\ templateExists' = TRUE
  /\ rpc' = "items"
  /\ ridx' = 1
  /\ UNCHANGED <<nonRenderer, consolidatedData, levelACriteria, levelAACriteria, levelAAACriteria,
                 yamlSections, run, firstSections>>

\* lines 218-306: the template is created when missing, then read; the three
\* lists are fresh locals of every call
GenerateStart ==
  /\ rpc = "start"
  /\ templateExists' = TRUE
  /\ levelACriteria' = <<>>
  /\ levelAACriteria' = <<>>
  /\ levelAAACriteria' = <<>>
  /\ rpc' = "items"
  /\ ridx' = 1
  /\ UNCHANGED <<nonRenderer, consolidatedData, yamlSections, run, firstSections>>

\* one iteration of consolidatedData.forEach (lines 308-355)
ProcessItem ==
  /\ rpc = "items"
  /\ ridx <= Len(consolidatedData)
  /\ LET row == consolidatedData[ridx]
         wcagNum == convertWCAGFormat(row.sc)
         lists == [a |-> levelACriteria, aa |-> levelAACriteria, aaa |-> levelAAACriteria]
         after == IF arrayIncludes(wcag22Criteria, wcagNum) THEN lists
                  ELSE bucket(lists, renderCriterion(row, ridx))
     IN  /\ levelACriteria' = after.a
         /\ levelAACriteria' = after.aa
         /\ levelAAACriteria' = after.aaa
  /\ ridx' = ridx + 1
  /\ UNCHANGED <<nonRenderer, consolidatedData, templateExists, rpc, yamlSections, run, firstSections>>

\* lines 357-388: the forced-not-applicable codes that had no row
AddMissingNA ==
  /\ rpc = "items"
  /\ ridx > Len(consolidatedData)
  /\ LET lists == [a |-> levelACriteria, aa |-> levelAACriteria, aaa |-> levelAAACriteria]
         after == addMissing(lists, processedWcagNums(consolidatedData), 1)
     IN  /\ levelACriteria' = after.a
         /\ levelAACriteria' = after.aa
         /\ levelAAACriteria' = after.aaa
  /\ rpc' = "emit"
  /\ UNCHANGED <<nonRenderer, consolidatedData, templateExists, ridx, yamlSections, run, firstSections>>

\* lines 390-480: the three criteria lists are written out; an empty AA or
\* AAA list is written as ' []'
EmitSections ==
  /\ rpc = "emit"
  /\ yamlSections' = [a |-> yamlCriteria(levelACriteria),
                      aa |-> yamlCriteria(levelAACriteria),
                      aaa |-> yamlCriteria(levelAAACriteria),
                      aaEmpty |-> (Len(levelAACriteria) = 0),
                      aaaEmpty |-> (Len(levelAAACriteria) = 0)]
  /\ rpc' = "done"
  /\ UNCHANGED <<nonRenderer, consolidatedData, templateExists, ridx, levelACriteria,
                 levelAACriteria, levelAAACriteria, run, firstSections>>

\* the converter is started again on the same artifact (a new process: only
\* the files on disk carry over)
Rerun ==
  /\ rpc = "done"
  /\ run = 1
  /\ run' = 2
  /\ firstSections' = yamlSections
  /\ yamlSections' = NoSections
  /\ rpc' = "start"
  /\ UNCHANGED <<nonRenderer, consolidatedData, templateExists, ridx, levelACriteria,
                 levelAACriteria, levelAAACriteria>>

RendererNext == GenerateStart \/ ProcessItem \/ AddMissingNA \/ EmitSections \/ Rerun



(***************************************************************************)
(* Collector: parsing, the criterion loop and the written artifact         *)
(***************************************************************************)

wcagCriteria ==
  << [code |-> "wcag111", name |-> "Non-text Content", level |-> "Level A"],
     [code |-> "wcag121", name |-> "Audio-only and Video-only (Prerecorded)", level |-> "Level A"],
     [code |-> "wcag122", name |-> "Captions (Prerecorded)", level |-> "Level A"],
     [code |-> "wcag123", name |-> "Audio Description or Media Alternative (Prerecorded)", level |-> "Level A"],
     [code |-> "wcag131", name |-> "Info and Relationships", level |-> "Level A"],
     [code |-> "wcag132", name |-> "Meaningful Sequence", level |-> "Level A"],
     [code |-> "wcag133", name |-> "Sensory Characteristics", level |-> "Level A"],
     [code |-> "wcag141", name |-> "Use of Color", level |-> "Level A"],
     [code |-> "wcag142", name |-> "Audio Control", level |-> "Level A"],
     [code |-> "wcag211", name |-> "Keyboard", level |-> "Level A"],
     [code |-> "wcag212", name |-> "No Keyboard Trap", level |-> "Level A"],
     [code |-> "wcag221", name |-> "Timing Adjustable", level |-> "Level A"],
     [code |-> "wcag222", name |-> "Pause, Stop, Hide", level |-> "Level A"],
     [code |-> "wcag241", name |-> "Bypass Blocks", level |-> "Level A"],
     [code |-> "wcag242", name |-> "Page Titled", level |-> "Level A"],
     [code |-> "wcag243", name |-> "Focus Order", level |-> "Level A"],
     [code |-> "wcag244", name |-> "Link Purpose (In Context)", level |-> "Level A"],
     [code |-> "wcag311", name |-> "Language of Page", level |-> "Level A"],
     [code |-> "wcag321", name |-> "On Focus", level |-> "Level A"],
     [code |-> "wcag322", name |-> "On Input", level |-> "Level A"],
     [code |-> "wcag331", name |-> "Error Identification", level |-> "Level A"],
     [code |-> "wcag332", name |-> "Labels or Instructions", level |-> "Level A"],
     [code |-> "wcag411", name |-> "Parsing", level |-> "Level A"],
     [code |-> "wcag412", name |-> "Name, Role, Value", level |-> "Level A"],
     [code |-> "wcag124", name |-> "Captions (Live)", level |-> "Level AA"],
     [code |-> "wcag125", name |-> "Audio Description (Prerecorded)", level |-> "Level AA"],
     [code |-> "wcag134", name |-> "Orientation", level |-> "Level AA"],
     [code |-> "wcag135", name |-> "Identify Input Purpose", level |-> "Level AA"],
     [code |-> "wcag143", name |-> "Contrast (Minimum)", level |-> "Level AA"],
     [code |-> "wcag144", name |-> "Resize Text", level |-> "Level AA"],
     [code |-> "wcag145", name |-> "Images of Text", level |-> "Level AA"],
     [code |-> "wcag1410", name |-> "Reflow", level |-> "Level AA"],
     [code |-> "wcag1411", name |-> "Non-text Contrast", level |-> "Level AA"],
     [code |-> "wcag1412", name |-> "Text Spacing", level |-> "Level AA"],
     [code |-> "wcag1413", name |-> "Content on Hover or Focus", level |-> "Level AA"],
     [code |-> "wcag214", name |-> "Character Key Shortcuts", level |-> "Level AA"],
     [code |-> "wcag245", name |-> "Multiple Ways", level |-> "Level AA"],
     [code |-> "wcag246", name |-> "Headings and Labels", level |-> "Level AA"],
     [code |-> "wcag247", name |-> "Focus Visible", level |-> "Level AA"],
     [code |-> "wcag2411", name |-> "Focus Not Obscured (Minimum)", level |-> "Level AA"],
     [code |-> "wcag251", name |-> "Pointer Gestures", level |-> "Level AA"],
     [code |-> "wcag252", name |-> "Pointer Cancellation", level |-> "Level AA"],
     [code |-> "wcag253", name |-> "Label in Name", level |-> "Level AA"],
     [code |-> "wcag254", name |-> "Motion Actuation", level |-> "Level AA"],
     [code |-> "wcag257", name |-> "Dragging Movements", level |-> "Level AA"],
     [code |-> "wcag258", name |-> "Target Size (Minimum)", level |-> "Level AA"],
     [code |-> "wcag312", name |-> "Language of Parts", level |-> "Level AA"],
     [code |-> "wcag323", name |-> "Consistent Navigation", level |-> "Level AA"],
     [code |-> "wcag324", name |-> "Consistent Identification", level |-> "Level AA"],
     [code |-> "wcag333", name |-> "Error Suggestion", level |-> "Level AA"],
     [code |-> "wcag334", name |-> "Error Prevention (Legal, Financial, Data)", level |-> "Level AA"],
     [code |-> "wcag413", name |-> "Status Messages", level |-> "Level AA"],
     [code |-> "wcag126", name |-> "Sign Language (Prerecorded)", level |-> "Level AAA"],
     [code |-> "wcag127", name |-> "Extended Audio Description (Prerecorded)", level |-> "Level AAA"],
     [code |-> "wcag128", name |-> "Media Alternative (Prerecorded)", level |-> "Level AAA"],
     [code |-> "wcag129", name |-> "Audio-only (Live)", level |-> "Level AAA"],
     [code |-> "wcag136", name |-> "Identify Purpose", level |-> "Level AAA"],
     [code |-> "wcag146", name |-> "Contrast (Enhanced)", level |-> "Level AAA"],
     [code |-> "wcag147", name |-> "Low or No Background Audio", level |-> "Level AAA"],
     [code |-> "wcag148", name |-> "Visual Presentation", level |-> "Level AAA"],
     [code |-> "wcag149", name |-> "Images of Text (No Exception)", level |-> "Level AAA"],
     [code |-> "wcag213", name |-> "No Timing", level |-> "Level AAA"],
     [code |-> "wcag223", name |-> "No Timing", level |-> "Level AAA"],
     [code |-> "wcag224", name |-> "Interruptions", level |-> "Level AAA"],
     [code |-> "wcag225", name |-> "Re-authenticating", level |-> "Level AAA"],
     [code |-> "wcag226", name |-> "Timeouts", level |-> "Level AAA"],
     [code |-> "wcag231", name |-> "Three Flashes or Below Threshold", level |-> "Level AAA"],
     [code |-> "wcag232", name |-> "Three Flashes", level |-> "Level AAA"],
     [code |-> "wcag233", name |-> "Animation from Interactions", level |-> "Level AAA"],
     [code |-> "wcag248", name |-> "Location", level |-> "Level AAA"],
     [code |-> "wcag249", name |-> "Link Purpose (Link Only)", level |-> "Level AAA"],
     [code |-> "wcag2410", name |-> "Section Headings", level |-> "Level AAA"],
     [code |-> "wcag2412", name |-> "Focus Not Obscured (Enhanced)", level |-> "Level AAA"],
     [code |-> "wcag255", name |-> "Target Size (Enhanced)", level |-> "Level AAA"],
     [code |-> "wcag256", name |-> "Concurrent Input Mechanisms", level |-> "Level AAA"],
     [code |-> "wcag313", name |-> "Unusual Words", level |-> "Level AAA"],
     [code |-> "wcag314", name |-> "Abbreviations", level |-> "Level AAA"],
     [code |-> "wcag315", name |-> "Reading Level", level |-> "Level AAA"],
     [code |-> "wcag316", name |-> "Pronunciation", level |-> "Level AAA"],
     [code |-> "wcag325", name |-> "Change on Request", level |-> "Level AAA"],
     [code |-> "wcag335", name |-> "Help", level |-> "Level AAA"],
     [code |-> "wcag336", name |-> "Error Prevention (All)", level |-> "Level AAA"] >>

\* number of entries of wcagCriteria the loop is run over
CriteriaCount == 2

MaxAnchors == 2

MaxItems == 2

\* One <a> element of a search-result page, as far as the four link patterns
\* tell elements apart: form "rel" is href="/project/P/issues/N", "abs" is
\* href="https://www.drupal.org/project/P/issues/N", "node" is
\* href="/node/N" with a node class; h3 says whether the link sits in a
\* search-result__title heading.
Anchor(form, h3, id, project) == [form |-> form, h3 |-> h3, id |-> id, project |-> project]

Anchors ==
  {Anchor(f, FALSE, id, "drupal") : f \in {"rel", "abs", "node"}, id \in {"101", "102"}}
  \cup {Anchor("rel", TRUE, id, "drupal") : id \in {"101", "102"}}

Pages == UNION {[1..n -> Anchors] : n \in 0..MaxAnchors}

\* which elements each of the four regular expressions of issuePatterns matches
matchesPattern(a, p) ==
  CASE p = 1 -> a.form = "rel"
    [] p = 2 -> a.form = "node"
    [] p = 3 -> a.form = "abs"
    [] p = 4 -> a.h3 /\ a.form \in {"rel", "abs"}

\* the capture groups of one match; pattern 2 has no project group, the
\* project is then looked up in the url and a /node/ url has none
matchOf(a, p) ==
  [url |-> IF a.form = "rel" THEN "/project/" \o a.project \o "/issues/" \o a.id
           ELSE IF a.form = "abs"
             THEN "https://www.drupal.org/project/" \o a.project \o "/issues/" \o a.id
           ELSE "/node/" \o a.id,
   issueId |-> a.id,
   project |-> IF p = 2 THEN "unknown" ELSE a.project]

patternMatches(html, p) ==
  LET hit == SelectSeq(html, LAMBDA a : matchesPattern(a, p))
  IN  [k \in 1..Len(hit) |-> matchOf(hit[k], p)]

\* the record pushed for one match (lines 134-144)
basicIssue(m, wcag) ==
  [wcagCriteria |-> wcag,
   issueId |-> m.issueId,
   url |-> IF startsWith(m.url, "http") THEN m.url ELSE "https://www.drupal.org" \o m.url,
   project |-> m.project,
   enhanced |-> FALSE]

\* the pattern loops with the foundIssues set (lines 103-146)
RECURSIVE keepFirst(_, _, _)
keepFirst(ms, foundIssues, wcag) ==
  IF ms = <<>> THEN <<>>
  ELSE IF Head(ms).issueId \in foundIssues THEN keepFirst(Tail(ms), foundIssues, wcag)
  ELSE <<basicIssue(Head(ms), wcag)>>
         \o keepFirst(Tail(ms), foundIssues \cup {Head(ms).issueId}, wcag)

parseIssuesFromHTML(html, wcag) ==
  keepFirst(patternMatches(html, 1) \o patternMatches(html, 2)
              \o patternMatches(html, 3) \o patternMatches(html, 4), {}, wcag)

\* An <item> of the feed: whether it has a <title>, whether it has a <link>,
\* the digits its link ends with ("" when it ends otherwise), its project.
FeedItem(hasTitle, hasLink, id, project) ==
  [hasTitle |-> hasTitle, hasLink |-> hasLink, id |-> id, project |-> project]

FeedItems ==
  {FeedItem(TRUE, TRUE, id, "drupal") : id \in {"101", "102", ""}}
  \cup {FeedItem(FALSE, TRUE, "101", "drupal"), FeedItem(TRUE, FALSE, "", "unknown")}

Feeds ==
  [isRss : BOOLEAN, items : UNION {[1..n -> FeedItems] : n \in 0..MaxItems}]

\* lines 305-357: every item with a title, a link and an id gives a record
RECURSIVE rssIssues(_, _)
rssIssues(items, wcag) ==
  IF items = <<>> THEN <<>>
  ELSE LET it == Head(items) IN
       (IF it.hasTitle /\ it.hasLink /\ it.id # ""
          THEN << [wcagCriteria |-> wcag,
                   issueId |-> it.id,
                   url |-> "https://www.drupal.org/project/" \o it.project \o "/issues/" \o it.id,
                   project |-> it.project,
                   enhanced |-> FALSE] >>
          ELSE <<>>)
       \o rssIssues(Tail(items), wcag)

parseIssuesFromRSS(feed, wcag) ==
  IF ~feed.isRss THEN <<>> ELSE rssIssues(feed.items, wcag)

\* fetchEnhancedMetadata returns the record, with or without the metadata of
\* its detail page; `enhanced` records that the record went through it
fetchEnhancedMetadata(issue) == [issue EXCEPT !.enhanced = TRUE]

\* extractIssuesFromCriteria when the search page answers 200 (lines 248-297)
extractFromSearchPage(html, wcag) ==
  LET basicIssues == parseIssuesFromHTML(html, wcag)
  IN  [k \in 1..Len(basicIssues) |-> fetchEnhancedMetadata(basicIssues[k])]

\* extractIssuesFromCriteria when the search page answers 403 and the feed
\* answers 200 (lines 185-198)
extractFromFeed(feed, wcag) == parseIssuesFromRSS(feed, wcag)

\* a.localeCompare(b) < 0 for the lower-case letters and digits the codes and
\* project names are made of
Alphabet == "-0123456789abcdefghijklmnopqrstuvwxyz"

charRank(c) == indexOf(Alphabet, c)

RECURSIVE localeLess(_, _)
localeLess(a, b) ==
  IF b = "" THEN FALSE
  ELSE IF a = "" THEN TRUE
  ELSE IF charAt(a, 0) = charAt(b, 0) THEN localeLess(slice(a, 1), slice(b, 1))
  ELSE charRank(charAt(a, 0)) < charRank(charAt(b, 0))

\* the comparator of allIssues.sort (lines 576-581): a sorts before b
issueBefore(a, b) ==
  IF a.wcagCriteria # b.wcagCriteria THEN localeLess(a.wcagCriteria, b.wcagCriteria)
  ELSE localeLess(a.project, b.project)

\* allIssues.sort(...): Array.prototype.sort is stable, so equal elements keep
\* their order (insertion behind the elements that do not sort after x)
RECURSIVE insertIssue(_, _)
insertIssue(sorted, x) ==
  IF sorted = <<>> THEN <<x>>
  ELSE IF issueBefore(x, Head(sorted)) THEN <<x>> \o sorted
  ELSE <<Head(sorted)>> \o insertIssue(Tail(sorted), x)

RECURSIVE sortIssues(_)
sortIssues(q) ==
  IF q = <<>> THEN <<>>
  ELSE insertIssue(sortIssues(SubSeq(q, 1, Len(q) - 1)), q[Len(q)])

CollectorInit ==
  /\ cpc = "loop"
  /\ ci = 1
  /\ allIssues = <<>>
  /\ processedCount = 0
  /\ successCount = 0
  /\ blockedCount = 0
  /\ csvRows = <<>>

\* the loop body after extractIssuesFromCriteria has returned (lines 484-493)
collected(issues) ==
  /\ allIssues' = allIssues \o issues
  /\ successCount' = IF Len(issues) > 0 THEN successCount + 1 ELSE successCount
  /\ processedCount' = processedCount + 1
  /\ ci' = ci + 1
  /\ UNCHANGED <<nonCollector, cpc, blockedCount, csvRows>>

\* the search page answers 200
CollectFromSearchPage ==
  /\ cpc = "loop"
  /\ ci <= CriteriaCount
  /\ \E html \in Pages : collected(extractFromSearchPage(html, wcagCriteria[ci].code))

\* the search page answers 403 and the feed answers 200
CollectFromFeed ==
  /\ cpc = "loop"
  /\ ci <= CriteriaCount
  /\ \E feed \in Feeds : collected(extractFromFeed(feed, wcagCriteria[ci].code))

\* every other answer: another HTTP error, the exhausted 403 chain, or an
\* exception caught inside extractIssuesFromCriteria
CollectNothing ==
  /\ cpc = "loop"
  /\ ci <= CriteriaCount
  /\ collected(<<>>)

\* lines 518-522 and generateDetailedCSV: the artifact is written when there
\* is at least one issue
WriteCSV ==
  /\ cpc = "loop"
  /\ ci > CriteriaCount
  /\ csvRows' = IF Len(allIssues) > 0 THEN sortIssues(allIssues) ELSE <<>>
  /\ cpc' = "done"
  /\ UNCHANGED <<nonCollector, ci, allIssues, processedCount, successCount, blockedCount>>

CollectorNext == CollectFromSearchPage \/ CollectFromFeed \/ CollectNothing \/ WriteCSV

(***************************************************************************)
(* Aggregator: fetchWithRetry, generateWCAGSummary and the two passes of   *)
(* consolidateWCAGSummaries                                                *)
(***************************************************************************)

\* rows of the Collector file that are read
MaxDetailed == 2

\* fetchWithRetry(url, options, retries = 5)
retries == 5

Digits == "0123456789"

\* String(n) for a natural number
RECURSIVE numberToString(_)
numberToString(n) ==
  IF n < 10 THEN charAt(Digits, n)
  ELSE numberToString(n \div 10) \o charAt(Digits, n % 10)

\* q.join(sep) for a sequence of strings
RECURSIVE join(_, _)
join(q, sep) ==
  IF q = <<>> THEN ""
  ELSE IF Len(q) = 1 THEN q[1]
  ELSE q[1] \o sep \o join(Tail(q), sep)

\* text.match(/LABEL\s*(.*?)(?=STOP|$)/s): the capture group, null without a
\* match; stop = "" is the pattern that runs to the end of the text
matchLabel(text, label, stop) ==
  LET at == indexOf(text, label) IN
  IF at = -1 THEN null
  ELSE LET rest == slice(text, at + Len(label))
           body == trimStart(rest)
           to == IF stop = "" THEN -1 ELSE indexOf(body, stop)
       IN  IF to = -1 THEN body ELSE SubSeq(body, 1, to)

\* match ? match[1].trim() : placeholder
captureOr(text, label, stop, placeholder) ==
  LET m == matchLabel(text, label, stop) IN
  IF m = null THEN placeholder ELSE trim(m)

\* wcagGroups after detailedIssues.forEach (lines 986-1005): a group per
\* 'WCAG SC' in order of first appearance, holding the issues with a summary
RECURSIVE groupIssues(_, _, _)
groupIssues(rows, ids, groups) ==
  IF rows = <<>> THEN groups
  ELSE LET issue == Head(rows)
           known == \E k \in 1..Len(groups) : groups[k].wcagSC = issue.sc
           opened == IF known THEN groups
                     ELSE Append(groups, [wcagSC |-> issue.sc, issues |-> <<>>])
           added == [k \in 1..Len(opened) |->
                       IF opened[k].wcagSC = issue.sc /\ issue.issueId \in ids
                       THEN [opened[k] EXCEPT !.issues = Append(@, issue.issueId)]
                       ELSE opened[k]]
       IN  groupIssues(Tail(rows), ids, added)

\* the placeholder of line 862
placeholderSummary(n) ==
  "Based on " \o numberToString(n) \o " identified issue" \o (IF n > 1 THEN "s" ELSE "")
    \o ", automatic assessment could not be completed due to API limitations."
    \o " Manual review required to determine conformance level and detailed impact analysis."
    \o " Issues affect accessibility across multiple user groups and require technical evaluation."

\* the catch block of generateWCAGSummary (lines 857-876)
caughtSummary(message, n) ==
  IF includes(message, "503") \/ includes(message, "overloaded")
  THEN [assessment |-> "REQUIRES_REVIEW", summary |-> placeholderSummary(n)]
  ELSE [assessment |-> "ERROR", summary |-> "Error generating summary: " \o message]

\* the TypeError of `await response.json()` when fetchWithRetry has returned
\* undefined
UndefinedResponseMessage == "Cannot read properties of undefined (reading 'json')"

\* the 2xx bodies the provider can send: the JSON of a candidate with a text,
\* and JSON without candidates
OkBodies ==
  {[kind |-> "text", text |-> t] :
     t \in {"ACR_ASSESSMENT: SUPPORTED\nACR_SUMMARY: No significant barriers. ",
            "ACR_ASSESSMENT: REQUIRES_REVIEW\nACR_SUMMARY: Unclear.",
            "I cannot assess this."}}
  \cup {[kind |-> "no-candidates", text |-> ""]}

\* lines 833-855 on a 2xx response
parsedSummary(body, n) ==
  IF body.kind = "not-json" THEN caughtSummary("Unexpected end of JSON input", n)
  ELSE IF body.kind = "no-candidates"
    THEN caughtSummary("Invalid response structure from Gemini API", n)
  ELSE [assessment |-> captureOr(body.text, "ACR_ASSESSMENT:", "ACR_SUMMARY:", "UNKNOWN"),
        summary |-> captureOr(body.text, "ACR_SUMMARY:", "", "Unable to generate summary")]

\* the statuses on which an iteration of fetchWithRetry ends without a return
\* or a throw: 503 and 429 (wait, continue) and a status below 400 that is
\* not 2xx
QuietStatuses == {503, 429, 302}

\* the error answers that make fetchWithRetry throw (line 735)
HttpErrors ==
  {[status |-> 500, text |-> "The model is overloaded. Please try again later."],
   [status |-> 400, text |-> "API key not valid."]}

httpErrorMessage(e) == "HTTP " \o numberToString(e.status) \o ": " \o e.text

\* the messages of the errors makeHttpsRequest rejects with
RequestErrors == {"socket hang up"}

\* a row of the Collector file, as far as the Aggregator reads it
DetailedRows == [sc : {"wcag142", "wcag1410"}, issueId : {"101", "102"}]

NoCall == [wcagSC |-> "", pass |-> "", only503 |-> FALSE, assessment |-> "", summary |-> ""]

AggregatorInit ==
  /\ detailedIssues \in UNION {[1..n -> DetailedRows] : n \in 0..MaxDetailed}
  /\ summaryIds \in {{"101"}, {"101", "102"}}
  /\ wcagGroups = <<>>
  /\ apc = "start"
  /\ gi = 1
  /\ attempt = 1
  /\ only503 = TRUE
  /\ results = <<>>
  /\ failedEntries = <<>>
  /\ aProcessedCount = 0
  /\ lastCall = NoCall
  /\ acrRows = <<>>

\* lines 968-1012: both files are read and the groups are built
GroupIssues ==
  /\ apc = "start"
  /\ wcagGroups' = groupIssues(detailedIssues, summaryIds, <<>>)
  /\ apc' = "main"
  /\ gi' = 1
  /\ UNCHANGED <<nonAggregator, detailedIssues, summaryIds, attempt, only503, results,
                 failedEntries, aProcessedCount, lastCall, acrRows>>

\* the group generateWCAGSummary is running for
callInProgress ==
  \/ apc = "main" /\ gi <= Len(wcagGroups)
  \/ apc = "retry" /\ gi <= Len(failedEntries)

currentGroup == IF apc = "main" THEN wcagGroups[gi] ELSE failedEntries[gi]

\* A mutant of updateExisting: the retry pass adds its row.
updateExistingAppends(rows, row) == Append(rows, row)

\* results[existingIndex] = {...} for existingIndex = results.findIndex(...)
\* (lines 1074-1083)
updateExisting(rows, row) ==
  LET found == {k \in 1..Len(rows) : rows[k].wcagSC = row.wcagSC} IN
  IF found = {} THEN rows
  ELSE [rows EXCEPT ![CHOOSE k \in found : \A j \in found : k <= j] = row]

\* generateWCAGSummary returns `summary` to the loop that called it: lines
\* 1019-1046 in the main loop, lines 1071-1093 in the retry pass
completeCall(summary, all503) ==
  LET group == currentGroup
      row == [wcagSC |-> group.wcagSC,
              assessment |-> summary.assessment,
              summary |-> summary.summary,
              issueCount |-> Len(group.issues),
              issueIds |-> join(group.issues, ", ")]
  IN  /\ IF apc = "main"
         THEN /\ results' = Append(results, row)
              /\ failedEntries' = IF summary.assessment = "REQUIRES_REVIEW"
                                  THEN Append(failedEntries, group)
                                  ELSE failedEntries
              /\ aProcessedCount' = aProcessedCount + 1
         ELSE /\ results' = updateExisting(results, row)
              /\ UNCHANGED <<failedEntries, aProcessedCount>>
      /\ lastCall' = [wcagSC |-> group.wcagSC, pass |-> apc, only503 |-> all503,
                      assessment |-> summary.assessment, summary |-> summary.summary]
      /\ gi' = gi + 1
      /\ attempt' = 1
      /\ only503' = TRUE
      /\ UNCHANGED <<nonAggregator, detailedIssues, summaryIds, wcagGroups, apc, acrRows>>

\* the running call goes to its next attempt
nextAttempt(all503) ==
  /\ attempt' = attempt + 1
  /\ only503' = all503
  /\ UNCHANGED <<nonAggregator, detailedIssues, summaryIds, wcagGroups, apc, gi, results,
                 failedEntries, aProcessedCount, lastCall, acrRows>>

\* the provider answers 2xx: fetchWithRetry returns the response (line 712)
\* and generateWCAGSummary parses it
ProviderAnswersOk ==
  /\ callInProgress
  /\ \E body \in OkBodies :
       completeCall(parsedSummary(body, Len(currentGroup.issues)), FALSE)

\* the provider answers 503, 429 or another status that neither returns nor
\* throws: after the last attempt the loop ends and fetchWithRetry returns
\* undefined, on which `response.json()` throws inside generateWCAGSummary
ProviderAnswersQuietly ==
  /\ callInProgress
  /\ \E status \in QuietStatuses :
       LET all503 == only503 /\ status = 503 IN
       IF attempt < retries THEN nextAttempt(all503)
       ELSE completeCall(caughtSummary(UndefinedResponseMessage, Len(currentGroup.issues)),
                         all503)

\* the provider answers another status >= 400: line 735 throws, the catch of
\* fetchWithRetry rethrows on the last attempt and waits otherwise
ProviderAnswersError ==
  /\ callInProgress
  /\ \E e \in HttpErrors :
       IF attempt < retries THEN nextAttempt(FALSE)
       ELSE completeCall(caughtSummary(httpErrorMessage(e), Len(currentGroup.issues)), FALSE)

\* the request itself fails (makeHttpsRequest rejects)
RequestFails ==
  /\ callInProgress
  /\ \E message \in RequestErrors :
       IF attempt < retries THEN nextAttempt(FALSE)
       ELSE completeCall(caughtSummary(message, Len(currentGroup.issues)), FALSE)

\* the main loop is over; the retry pass (lines 1063-1100) runs over
\* failedEntries, which may be empty
StartRetryPass ==
  /\ apc = "main"
  /\ gi > Len(wcagGroups)
  /\ apc' = "retry"
  /\ gi' = 1
  /\ UNCHANGED <<nonAggregator, detailedIssues, summaryIds, wcagGroups, attempt, only503,
                 results, failedEntries, aProcessedCount, lastCall, acrRows>>

\* a.wcagSC.localeCompare(b.wcagSC) < 0
resultBefore(a, b) == localeLess(a.wcagSC, b.wcagSC)

RECURSIVE insertResult(_, _)
insertResult(sorted, x) ==
  IF sorted = <<>> THEN <<x>>
  ELSE IF resultBefore(x, Head(sorted)) THEN <<x>> \o sorted
  ELSE <<Head(sorted)>> \o insertResult(Tail(sorted), x)

\* results.sort(...) of line 1111
RECURSIVE sortResults(_)
sortResults(q) ==
  IF q = <<>> THEN <<>>
  ELSE insertResult(sortResults(SubSeq(q, 1, Len(q) - 1)), q[Len(q)])

\* lines 1102-1125: the rows are sorted and written
WriteConsolidated ==
  /\ apc = "retry"
  /\ gi > Len(failedEntries)
  /\ results' = sortResults(results)
  /\ acrRows' = sortResults(results)
  /\ apc' = "done"
  /\ UNCHANGED <<nonAggregator, detailedIssues, summaryIds, wcagGroups, gi, attempt, only503,
                 failedEntries, aProcessedCount, lastCall>>

AggregatorNext ==
  \/ GroupIssues
  \/ ProviderAnswersOk
  \/ ProviderAnswersQuietly
  \/ ProviderAnswersError
  \/ RequestFails
  \/ StartRetryPass
  \/ WriteConsolidated

(***************************************************************************)
(* Summarizer: fetchWithRetry and generateSummaries                        *)
(***************************************************************************)

\* fetchWithRetry(url, options, retries = 3) of the Summarizer
summarizerRetries == 3

\* what the AI can write behind a label
NoteValues == {" Affects people without vision.\n", "\nFirst line.\nSecond line.\n\n"}

\* the part of a response text for one label: nothing, or the label and a value
LabelParts(label) == {""} \cup {label \o v : v \in NoteValues}

\* response texts: every subset of the four labels, in the order asked for,
\* and texts with the labels in another order, in lower case, or without any
ResponseTexts ==
  {a \o d \o t \o w : a \in LabelParts("ACR_NOTE:"), d \in LabelParts("DEVELOPER_NOTE:"),
                      t \in LabelParts("TITLE_ASSESSMENT:"), w \in LabelParts("WCAG_ASSESSMENT:")}
  \cup {"DEVELOPER_NOTE: Rebase the patch.\nACR_NOTE: Affects people without vision.",
        "acr_note: lower case\ndeveloper_note: lower case",
        "I cannot help with that."}

\* the 2xx bodies: a candidate with a text, a candidate whose part has no
\* text, JSON without candidates, and a body that is not JSON
SummaryBodies ==
  {[kind |-> "text", text |-> t] : t \in ResponseTexts}
  \cup {[kind |-> k, text |-> ""] : k \in {"no-text", "no-candidates", "not-json"}}

\* the catch block of generateSummaries (lines 388-395)
caughtSummaries(message) ==
  [acrNote |-> "Error generating ACR note: " \o message,
   developerNote |-> "Error generating developer note: " \o message,
   titleAssessment |-> "Error assessing title: " \o message]

\* A mutant of parsedSummaries: a response without the DEVELOPER_NOTE: label
\* is treated as an error of the whole call.
parsedSummariesStrict(body) ==
  IF body.kind # "text" \/ ~includes(body.text, "DEVELOPER_NOTE:")
  THEN caughtSummaries("Invalid response structure from Gemini API")
  ELSE [acrNote |-> captureOr(body.text, "ACR_NOTE:", "DEVELOPER_NOTE:",
                              "Unable to generate ACR note"),
        developerNote |-> captureOr(body.text, "DEVELOPER_NOTE:", "TITLE_ASSESSMENT:",
                                    "Unable to generate developer note"),
        titleAssessment |-> captureOr(body.text, "TITLE_ASSESSMENT:", "WCAG_ASSESSMENT:",
                                      "Unable to assess title"),
        wcagAssessment |-> captureOr(body.text, "WCAG_ASSESSMENT:", "",
                                     "Unable to assess WCAG classification")]

\* lines 359-386 on a 2xx response
parsedSummaries(body) ==
  IF body.kind = "not-json" THEN caughtSummaries("Unexpected end of JSON input")
  ELSE IF body.kind = "no-candidates"
    THEN caughtSummaries("Invalid response structure from Gemini API")
  ELSE IF body.kind = "no-text"
    THEN caughtSummaries("Cannot read properties of undefined (reading 'match')")
  ELSE [acrNote |-> captureOr(body.text, "ACR_NOTE:", "DEVELOPER_NOTE:",
                              "Unable to generate ACR note"),
        developerNote |-> captureOr(body.text, "DEVELOPER_NOTE:", "TITLE_ASSESSMENT:",
                                    "Unable to generate developer note"),
        titleAssessment |-> captureOr(body.text, "TITLE_ASSESSMENT:", "WCAG_ASSESSMENT:",
                                      "Unable to assess title"),
        wcagAssessment |-> captureOr(body.text, "WCAG_ASSESSMENT:", "",
                                     "Unable to assess WCAG classification")]

\* the value of `summaries` while generateSummaries has not returned
Pending == [pending |-> TRUE]

SummarizerInit ==
  /\ spc = "fetch"
  /\ sAttempt = 1
  /\ responseText = null
  /\ summaries = Pending

\* generateSummaries returns
returnSummaries(text, value) ==
  /\ responseText' = text
  /\ summaries' = value
  /\ spc' = "done"
  /\ UNCHANGED <<nonSummarizer, sAttempt>>

retrySummaries ==
  /\ sAttempt' = sAttempt + 1
  /\ UNCHANGED <<nonSummarizer, spc, responseText, summaries>>

\* the provider answers 2xx (line 95), the response is parsed
SummaryAnswerOk ==
  /\ spc = "fetch"
  /\ \E body \in SummaryBodies :
       returnSummaries(IF body.kind = "text" THEN body.text ELSE null, parsedSummaries(body))

\* 429 (wait, continue) or a status below 400 that is not 2xx: after the last
\* attempt fetchWithRetry returns undefined and `response.json()` throws
SummaryAnswerQuiet ==
  /\ spc = "fetch"
  /\ IF sAttempt < summarizerRetries THEN retrySummaries
     ELSE returnSummaries(null, caughtSummaries(UndefinedResponseMessage))

\* a status >= 400 other than 429 (line 108), or a failed request: rethrown on
\* the last attempt
SummaryAnswerError ==
  /\ spc = "fetch"
  /\ \E message \in {httpErrorMessage(e) : e \in HttpErrors} \cup RequestErrors :
       IF sAttempt < summarizerRetries THEN retrySummaries
       ELSE returnSummaries(null, caughtSummaries(message))

SummarizerNext == SummaryAnswerOk \/ SummaryAnswerQuiet \/ SummaryAnswerError

(***************************************************************************)
(* Summarizer: the record loop of processIssues                            *)
(***************************************************************************)

\* records of the input file that are read
MaxIssues == 2

\* a record of the input file, as far as processIssues reads it
IssueRecords == [issueId : {"101", "102"}]

\* what fetchIssueContent returns: the object of lines 257-265 with the sorted
\* participant list, or the object of its catch block (lines 268-272), which
\* has no userAliases
IssueContents ==
  {[title |-> "Add alt text", comments |-> <<>>, userAliases |-> u] :
     u \in {<<>>, <<"alice", "bob">>}}
  \cup {[title |-> "Unable to fetch title", comments |-> <<>>]}

\* what generateSummaries returns to processIssues: a parsed response, or the
\* object of its catch block
SummaryResults ==
  {parsedSummaries([kind |-> "text", text |-> t]) :
     t \in {"ACR_NOTE: a\nDEVELOPER_NOTE: d\nTITLE_ASSESSMENT: t\nWCAG_ASSESSMENT: w",
            "I cannot help with that."}}
  \cup {caughtSummaries(UndefinedResponseMessage)}

\* result.wcagAssessment of a row: undefined is written as '' by escapeCSV
fieldOrUndefined(record, field) ==
  IF field \in DOMAIN record THEN record[field] ELSE undefined

\* the row pushed at lines 483-491
summaryRow(issue, sums, content) ==
  [issueId |-> issue.issueId,
   acrNote |-> sums.acrNote,
   developerNote |-> sums.developerNote,
   titleAssessment |-> sums.titleAssessment,
   wcagAssessment |-> fieldOrUndefined(sums, "wcagAssessment"),
   userAliases |-> join(content.userAliases, ", ")]

\* the row pushed by the catch block (lines 501-509)
errorRow(issue, message) ==
  [issueId |-> issue.issueId,
   acrNote |-> "Error: " \o message,
   developerNote |-> "Error: " \o message,
   titleAssessment |-> "Error: " \o message,
   wcagAssessment |-> "Error: " \o message,
   userAliases |-> ""]

\* A mutant of pushError: a failed record leaves no row.
pushErrorNothing(rows, issue, message) == rows

\* results.push of the catch block
pushError(rows, issue, message) == Append(rows, errorRow(issue, message))

NoContent == [title |-> "", comments |-> <<>>]

ProcessIssuesInit ==
  /\ ppc = "fetch"
  /\ sIssues \in UNION {[1..n -> IssueRecords] : n \in 0..MaxIssues}
  /\ sIdx = 1
  /\ issueContent = NoContent
  /\ sResults = <<>>
  /\ sProcessedCount = 0
  /\ errorCount = 0
  /\ summaryRows = <<>>

ProcessIssuesIdle ==
  /\ ppc = "idle"
  /\ sIssues = <<>>
  /\ sIdx = 1
  /\ issueContent = NoContent
  /\ sResults = <<>>
  /\ sProcessedCount = 0
  /\ errorCount = 0
  /\ summaryRows = <<>>

\* line 471: fetchIssueContent returns, with the page content or with the
\* object of its catch block
FetchIssueContent ==
  /\ ppc = "fetch"
  /\ sIdx <= Len(sIssues)
  /\ \E content \in IssueContents : issueContent' = content
  /\ ppc' = "summarize"
  /\ UNCHANGED <<nonProcessIssues, sIssues, sIdx, sResults, sProcessedCount, errorCount,
                 summaryRows>>

\* lines 474-510: generateSummaries returns and the row is stored; reading
\* issueContent.userAliases.join throws when the content has no userAliases,
\* which the catch block of the loop turns into an error row
StoreSummaries ==
  /\ ppc = "summarize"
  /\ \E sums \in SummaryResults :
       IF "userAliases" \in DOMAIN issueContent
       THEN /\ sResults' = Append(sResults, summaryRow(sIssues[sIdx], sums, issueContent))
            /\ sProcessedCount' = sProcessedCount + 1
            /\ UNCHANGED errorCount
       ELSE /\ sResults' = pushError(sResults, sIssues[sIdx],
                                     "Cannot read properties of undefined (reading 'join')")
            /\ errorCount' = errorCount + 1
            /\ UNCHANGED sProcessedCount
  /\ sIdx' = sIdx + 1
  /\ ppc' = "fetch"
  /\ UNCHANGED <<nonProcessIssues, sIssues, issueContent, summaryRows>>

\* lines 518-541: the rows are written in the order of results
WriteSummaries ==
  /\ ppc = "fetch"
  /\ sIdx > Len(sIssues)
  /\ summaryRows' = sResults
  /\ ppc' = "done"
  /\ UNCHANGED <<nonProcessIssues, sIssues, sIdx, issueContent, sResults, sProcessedCount,
                 errorCount>>

ProcessIssuesNext == FetchIssueContent \/ StoreSummaries \/ WriteSummaries

(***************************************************************************)
(* Collector: extractIssuesFromCriteria and its 403 fallback chain         *)
(***************************************************************************)

\* if (attemptNumber <= 3): the attempts that are followed by a cooldown
cooldownAttempts == 3

\* A mutant of getRetryDelay: only the fallback delay is left.
getRetryDelayFallback(n) == 30

\* lines 682-689, in minutes
getRetryDelay(n) ==
  IF n = 1 THEN 2
  ELSE IF n = 2 THEN 5
  ELSE IF n = 3 THEN 20
  ELSE 30

ExtractInit ==
  /\ xpc = "search"
  /\ xCode \in {wcagCriteria[k].code : k \in 1..CriteriaCount}
  /\ attemptNumber = 1
  /\ cooldowns = <<>>
  /\ onlyBlocked = TRUE
  /\ xReturned = <<>>

ExtractIdle ==
  /\ xpc = "idle"
  /\ xCode = ""
  /\ attemptNumber = 1
  /\ cooldowns = <<>>
  /\ onlyBlocked = TRUE
  /\ xReturned = <<>>

\* extractIssuesFromCriteria returns `issues`
returnIssues(issues, blocked) ==
  /\ xReturned' = issues
  /\ onlyBlocked' = blocked
  /\ xpc' = "returned"
  /\ UNCHANGED <<nonExtract, xCode, attemptNumber, cooldowns>>

\* the search page answers 2xx (lines 248-297)
SearchAnswersOk ==
  /\ xpc = "search"
  /\ \E html \in Pages : returnIssues(extractFromSearchPage(html, xCode), FALSE)

\* the search page answers 403: the feed is requested (lines 185-194)
SearchAnswers403 ==
  /\ xpc = "search"
  /\ xpc' = "feed"
  /\ UNCHANGED <<nonExtract, xCode, attemptNumber, cooldowns, onlyBlocked, xReturned>>

\* the search page answers another error status (lines 243-246)
SearchAnswersOtherError ==
  /\ xpc = "search"
  /\ returnIssues(<<>>, FALSE)

\* fetchWithTimeout throws, for the search page or for the feed: the catch
\* block returns [] (lines 299-302)
RequestThrows ==
  /\ xpc \in {"search", "feed"}
  /\ returnIssues(<<>>, FALSE)

\* the feed answers 2xx (lines 196-198)
FeedAnswersOk ==
  /\ xpc = "feed"
  /\ \E feed \in Feeds : returnIssues(extractFromFeed(feed, xCode), FALSE)

\* the feed answers an error status: up to attempt 3 the cooldown of that
\* attempt is waited and the function calls itself with attemptNumber + 1;
\* after that it returns [] (lines 199-241)
FeedAnswersError ==
  /\ xpc = "feed"
  /\ IF attemptNumber <= cooldownAttempts
     THEN /\ cooldowns' = Append(cooldowns, getRetryDelay(attemptNumber))
          /\ attemptNumber' = attemptNumber + 1
          /\ xpc' = "search"
          /\ UNCHANGED <<nonExtract, xCode, onlyBlocked, xReturned>>
     ELSE returnIssues(<<>>, onlyBlocked)

ExtractNext ==
  \/ SearchAnswersOk
  \/ SearchAnswers403
  \/ SearchAnswersOtherError
  \/ RequestThrows
  \/ FeedAnswersOk
  \/ FeedAnswersError

(***************************************************************************)
(* Collector: fetchWithTimeout                                             *)
(***************************************************************************)

\* calls of fetchWithTimeout in one process
MaxRequests == 3

\* s.split(sep) for a one-character separator
RECURSIVE split(_, _)
split(s, sep) ==
  LET at == indexOf(s, sep) IN
  IF at = -1 THEN <<s>>
  ELSE <<SubSeq(s, 1, at)>> \o split(slice(s, at + 1), sep)

\* setCookie.split(',').map(c => c.split(';')[0]).join('; ')  (line 57)
cookiesOf(setCookie) ==
  LET parts == split(setCookie, ",")
  IN  join([k \in 1..Len(parts) |-> split(parts[k], ";")[1]], "; ")

\* the retries arguments of the call sites (lines 182, 192, 459, 712)
RetriesArguments == {1, 2, 3}

\* the set-cookie header of a response ("" when there is none)
SetCookieHeaders == {"", "SESS=a; path=/", "SESS=b; path=/,lang=en; path=/"}

ResponseStatuses == {200, 403, 500}

\* the errors fetch rejects with: a network failure, and the abort made by
\* the timeout
NetworkErrors == {"fetch failed", "This operation was aborted"}

\* the TypeError of line 77: controller.signal has only a getter (and
\* timeoutId, assigned on line 79, is a const)
AssignmentError == "Cannot set property signal of #<AbortController> which has only a getter"

NoResult == [kind |-> "none", status |-> 0, message |-> ""]

FetchInit ==
  /\ fpc = "ready"
  /\ fRetries = 3
  /\ fAttempt = 1
  /\ requestCount = 0
  /\ sessionCookies = ""
  /\ fBackoffs = <<>>
  /\ fResult = NoResult

FetchIdle ==
  /\ fpc = "idle"
  /\ fRetries = 3
  /\ fAttempt = 1
  /\ requestCount = 0
  /\ sessionCookies = ""
  /\ fBackoffs = <<>>
  /\ fResult = NoResult

\* lines 24-40: a call starts
CallFetchWithTimeout ==
  /\ fpc \in {"ready", "returned", "threw"}
  /\ requestCount < MaxRequests
  /\ fRetries' \in RetriesArguments
  /\ requestCount' = requestCount + 1
  /\ fAttempt' = 1
  /\ fBackoffs' = <<>>
  /\ fResult' = NoResult
  /\ fpc' = "request"
  /\ UNCHANGED <<nonFetch, sessionCookies>>

\* lines 47-60: fetch resolves with a response, which is returned whatever
\* its status
FetchResolves ==
  /\ fpc = "request"
  /\ \E status \in ResponseStatuses, setCookie \in SetCookieHeaders :
       /\ sessionCookies' = IF setCookie # "" THEN cookiesOf(setCookie) ELSE sessionCookies
       /\ fResult' = [kind |-> "response", status |-> status, message |-> ""]
  /\ fpc' = "returned"
  /\ UNCHANGED <<nonFetch, fRetries, fAttempt, requestCount, fBackoffs>>

\* lines 62-80: fetch rejects.  On the last attempt the error is rethrown;
\* before that the backoff is waited and then line 77 throws a TypeError
\* inside the catch block, which leaves the function
FetchRejects ==
  /\ fpc = "request"
  /\ \E error \in NetworkErrors :
       IF fAttempt = fRetries
       THEN /\ fResult' = [kind |-> "threw", status |-> 0, message |-> error]
            /\ UNCHANGED fBackoffs
       ELSE /\ fBackoffs' = Append(fBackoffs, fAttempt * 5000)
            /\ fResult' = [kind |-> "threw", status |-> 0, message |-> AssignmentError]
  /\ fpc' = "threw"
  /\ UNCHANGED <<nonFetch, fRetries, fAttempt, requestCount, sessionCookies>>

FetchNext == CallFetchWithTimeout \/ FetchResolves \/ FetchRejects

(***************************************************************************)
(* Stage processes: start-up checks, results directory, artifact names     *)
(***************************************************************************)

\* stage processes started in one behaviour
MaxRuns == 2

\* the clock advances in steps of 30 seconds, MaxTicks times at most
MaxTicks == 2

NoEnvFile == [exists |-> FALSE, content |-> ""]

EnvFiles ==
  {NoEnvFile} \cup
  {[exists |-> TRUE, content |-> c] :
     c \in {"GEMINI_API_KEY=k1", "GEMINI_API_KEY=", "DEBUG_HTML=1\nGEMINI_API_KEY=k1"}}

EnvKeys == {"", "k0"}

Arguments == {<<>>, <<"--help">>, <<"wcag-detailed-issues_2025-01-01_09-59">>,
              <<"results/wcag-acr-consolidated_2025-01-01_09-59.csv">>}

EarlierDetailed == "wcag-detailed-issues_2025-01-01_09-59.csv"
EarlierSummaries == "wcag-issue-summaries_2025-01-01_09-59.csv"
EarlierConsolidated == "wcag-acr-consolidated_2025-01-01_09-59.csv"

InitialResults ==
  { [exists |-> FALSE, files |-> {}],
    [exists |-> TRUE, files |-> {}],
    [exists |-> TRUE, files |-> {EarlierDetailed}],
    [exists |-> TRUE, files |-> {EarlierDetailed, EarlierSummaries, EarlierConsolidated}] }

\* one line of .env: const [key, value] = line.split('='); the variable is
\* set when key and value are non-empty and process.env has no value for it
loadEnvLine(env, line) ==
  LET parts == split(line, "=")
      key == parts[1]
      value == IF Len(parts) >= 2 THEN parts[2] ELSE ""
  IN  IF key = "GEMINI_API_KEY" /\ value # "" /\ env = "" THEN trim(value) ELSE env

RECURSIVE loadEnvLines(_, _)
loadEnvLines(env, lines) ==
  IF lines = <<>> THEN env
  ELSE loadEnvLines(loadEnvLine(env, Head(lines)), Tail(lines))

\* process.env.GEMINI_API_KEY after the .env file has been loaded
loadEnv(env, file) ==
  IF file.exists THEN loadEnvLines(env, split(file.content, "\n")) ELSE env

\* A mutant of keyMissing: the credential check never fires.
keyMissingNever(key) == FALSE

\* if (!GEMINI_API_KEY)
keyMissing(key) == key = ""

\* s.replace(a, b) with a string pattern: the first occurrence only
replaceFirst(s, a, b) ==
  LET at == indexOf(s, a) IN
  IF at = -1 THEN s
  ELSE SubSeq(s, 1, at) \o b \o slice(s, at + Len(a))

twoDigits(n) == (IF n < 10 THEN "0" ELSE "") \o numberToString(n)

\* new Date().toISOString() for the times of the model
toISOString(t) ==
  "2025-01-01T10:" \o twoDigits(t \div 60) \o ":" \o twoDigits(t % 60) \o ".000Z"

\* toISOString().slice(0, 16).replace(/:/g, '-').replace('T', '_')
timestampOf(t) ==
  replaceFirst(replaceAll(SubSeq(toISOString(t), 1, 16), ":", "-"), "T", "_")

\* the artifact name of each stage
artifactName(stage, t) ==
  IF stage = "Collector" THEN "wcag-detailed-issues_" \o timestampOf(t) \o ".csv"
  ELSE IF stage = "Summarizer" THEN "wcag-issue-summaries_" \o timestampOf(t) \o ".csv"
  ELSE IF stage = "Aggregator" THEN "wcag-acr-consolidated_" \o timestampOf(t) \o ".csv"
  ELSE "drupal-openacr_" \o timestampOf(t) \o ".yaml"

\* readdirSync(resultsDir).filter(f => f.startsWith(prefix) && f.endsWith('.csv'))
filesWith(dir, prefix) ==
  {f \in dir.files : startsWith(f, prefix) /\ endsWith(f, ".csv")}

\* fs.existsSync(p) for a path given relative to the working directory
existsSync(dir, p) ==
  dir.exists /\ startsWith(p, "results/") /\ slice(p, Len("results/")) \in dir.files

RunInit ==
  /\ upc = "ready"
  /\ uStage = "Collector"
  /\ envKey = ""
  /\ dotEnv = NoEnvFile
  /\ argv = <<>>
  /\ resultsDir \in InitialResults
  /\ clock = 0
  /\ runs = 0
  /\ requested = FALSE
  /\ wrote = FALSE
  /\ exitCode = -1
  /\ overwrote = FALSE

RunIdle ==
  /\ upc = "idle"
  /\ uStage = "Collector"
  /\ envKey = ""
  /\ dotEnv = NoEnvFile
  /\ argv = <<>>
  /\ resultsDir = [exists |-> FALSE, files |-> {}]
  /\ clock = 0
  /\ runs = 0
  /\ requested = FALSE
  /\ wrote = FALSE
  /\ exitCode = -1
  /\ overwrote = FALSE

\* a stage process is started with an environment, a .env file and arguments;
\* `status` is the exit status of its start-up checks, -1 when they pass
started(stage, env, file, args, status) ==
  /\ upc \in {"ready", "exited"}
  /\ runs < MaxRuns
  /\ runs' = runs + 1
  /\ uStage' = stage
  /\ envKey' = env
  /\ dotEnv' = file
  /\ argv' = args
  /\ requested' = FALSE
  /\ wrote' = FALSE
  /\ exitCode' = status
  /\ upc' = IF status = -1 THEN "running" ELSE "exited"
  /\ UNCHANGED <<nonRun, resultsDir, clock, overwrote>>

\* processIssues, lines 399-457, after the module has loaded .env (7-23)
summarizerStatus(env, file, args) ==
  LET GEMINI_API_KEY == loadEnv(env, file)
      targetFile == IF endsWith(args[1], ".csv") THEN args[1] ELSE args[1] \o ".csv"
  IN  IF keyMissing(GEMINI_API_KEY) THEN 1
      ELSE IF ~resultsDir.exists THEN 1
      ELSE IF args # <<>>
        THEN IF args[1] \in {"test-sample", "test-sample.csv"} THEN 1
             ELSE IF targetFile \notin resultsDir.files THEN 1
             ELSE -1
      ELSE IF filesWith(resultsDir, "wcag-detailed-issues_") = {} THEN 1
      ELSE -1

\* consolidateWCAGSummaries, lines 913-960, after the module has loaded .env
\* (584-600)
aggregatorStatus(env, file, args) ==
  LET GEMINI_API_KEY == loadEnv(env, file)
  IN  IF \E k \in 1..Len(args) : args[k] \in {"-h", "--help"} THEN 0
      ELSE IF keyMissing(GEMINI_API_KEY) THEN 1
      ELSE IF ~resultsDir.exists THEN 1
      ELSE IF filesWith(resultsDir, "wcag-detailed-issues_") = {} THEN 1
      ELSE IF filesWith(resultsDir, "wcag-issue-summaries_") = {} THEN 1
      ELSE -1

\* convertToOpenACR, lines 664-700
rendererStatus(args) ==
  IF args # <<>>
  THEN IF existsSync(resultsDir, args[1]) THEN -1 ELSE 1
  ELSE IF ~resultsDir.exists THEN 1
  ELSE IF filesWith(resultsDir, "wcag-acr-consolidated_") = {} THEN 1
  ELSE -1

\* the Collector has no start-up check and reads neither the credential nor
\* an input artifact
CollectorStarts ==
  \E env \in EnvKeys, file \in EnvFiles, args \in Arguments :
    started("Collector", env, file, args, -1)

SummarizerStarts ==
  \E env \in EnvKeys, file \in EnvFiles, args \in Arguments :
    started("Summarizer", env, file, args, summarizerStatus(env, file, args))

AggregatorStarts ==
  \E env \in EnvKeys, file \in EnvFiles, args \in Arguments :
    started("Aggregator", env, file, args, aggregatorStatus(env, file, args))

RendererStarts ==
  \E env \in EnvKeys, file \in EnvFiles, args \in Arguments :
    started("Renderer", env, file, args, rendererStatus(args))

\* time passes
Tick ==
  /\ clock < MaxTicks * 30
  /\ clock' = clock + 30
  /\ UNCHANGED <<nonRun, upc, uStage, envKey, dotEnv, argv, resultsDir, runs,
                 requested, wrote, exitCode, overwrote>>

\* the running process makes a request: the Collector to the issue tracker,
\* the Summarizer and the Aggregator to the tracker or the AI provider; the
\* Renderer makes none
NetworkRequest ==
  /\ upc = "running"
  /\ uStage # "Renderer"
  /\ ~requested
  /\ requested' = TRUE
  /\ UNCHANGED <<nonRun, upc, uStage, envKey, dotEnv, argv, resultsDir, clock, runs,
                 wrote, exitCode, overwrote>>

\* the Collector found no issue: no artifact is written (lines 518-522)
CollectorFindsNothing ==
  /\ upc = "running"
  /\ uStage = "Collector"
  /\ upc' = "exited"
  /\ exitCode' = 0
  /\ UNCHANGED <<nonRun, uStage, envKey, dotEnv, argv, resultsDir, clock, runs,
                 requested, wrote, overwrote>>

\* the running process writes its artifact under the name made from the
\* current time (mkdirSync when the directory is missing, then writeFileSync,
\* which replaces an existing file of that name) and ends
WriteArtifact ==
  /\ upc = "running"
  /\ LET outputFile == artifactName(uStage, clock)
     IN  /\ overwrote' = (overwrote \/ outputFile \in resultsDir.files)
         /\ resultsDir' = [exists |-> TRUE, files |-> resultsDir.files \cup {outputFile}]
  /\ wrote' = TRUE
  /\ upc' = "exited"
  /\ exitCode' = 0
  /\ UNCHANGED <<nonRun, uStage, envKey, dotEnv, argv, clock, runs, requested>>

RunNext ==
  \/ CollectorStarts
  \/ SummarizerStarts
  \/ AggregatorStarts
  \/ RendererStarts
  \/ Tick
  \/ NetworkRequest
  \/ CollectorFindsNothing
  \/ WriteArtifact

(***************************************************************************)
(* Orchestrator: run-acr-workflow.js                                       *)
(***************************************************************************)

\* JavaScript values of the option variables: null, NaN or a number
Null == [kind |-> "null", n |-> 0]

NaN == [kind |-> "NaN", n |-> 0]

Number(n) == [kind |-> "number", n |-> n]

\* a value in a condition: null, NaN and 0 are falsy
truthy(v) == v.kind = "number" /\ v.n # 0

\* a < b and a > b: false when either side is NaN; null counts as 0
lessThan(a, b) == a.kind # "NaN" /\ b.kind # "NaN" /\ a.n < b.n

greaterThan(a, b) == lessThan(b, a)

\* a === b
strictEquals(a, b) == a.kind = b.kind /\ a.kind # "NaN" /\ a.n = b.n

\* the longest prefix of s made of decimal digits
RECURSIVE leadingDigits(_)
leadingDigits(s) ==
  IF s = "" \/ indexOf(Digits, charAt(s, 0)) = -1 THEN ""
  ELSE charAt(s, 0) \o leadingDigits(slice(s, 1))

RECURSIVE digitsValue(_)
digitsValue(d) ==
  IF d = "" THEN 0
  ELSE digitsValue(SubSeq(d, 1, Len(d) - 1)) * 10 + indexOf(Digits, charAt(d, Len(d) - 1))

\* parseInt(s): leading white space, an optional sign, then the leading
\* digits; NaN when there is no digit
parseInt(s) ==
  LET t == trimStart(s)
      negative == startsWith(t, "-")
      body == IF negative \/ startsWith(t, "+") THEN slice(t, 1) ELSE t
      d == leadingDigits(body)
  IN  IF d = "" THEN NaN
      ELSE Number(IF negative THEN 0 - digitsValue(d) ELSE digitsValue(d))

\* parseInt(args[++i]): past the end args[i] is undefined, which parses to NaN
parseIntAt(args, i) == IF i <= Len(args) THEN parseInt(args[i]) ELSE NaN

\* lines 363-369
DefaultOptions ==
  [showHelp |-> FALSE, dryRun |-> FALSE, verbose |-> FALSE, specificStep |-> Null,
   skipStep |-> Null, fromStep |-> Number(1), toStep |-> Number(4), unknown |-> FALSE]

\* the argument loop of main (lines 371-404); args are indexed from 1 here.
\* An unknown option starting with -- ends the process (unknown)
RECURSIVE parseArgs(_, _, _)
parseArgs(args, i, o) ==
  IF i > Len(args) THEN o
  ELSE LET arg == args[i] IN
    IF arg \in {"--help", "-h"} THEN parseArgs(args, i + 1, [o EXCEPT !.showHelp = TRUE])
    ELSE IF arg = "--dry-run" THEN parseArgs(args, i + 1, [o EXCEPT !.dryRun = TRUE])
    ELSE IF arg = "--verbose" THEN parseArgs(args, i + 1, [o EXCEPT !.verbose = TRUE])
    ELSE IF arg = "--step"
      THEN parseArgs(args, i + 2, [o EXCEPT !.specificStep = parseIntAt(args, i + 1)])
    ELSE IF arg = "--skip"
      THEN parseArgs(args, i + 2, [o EXCEPT !.skipStep = parseIntAt(args, i + 1)])
    ELSE IF arg = "--from"
      THEN parseArgs(args, i + 2, [o EXCEPT !.fromStep = parseIntAt(args, i + 1)])
    ELSE IF arg = "--to"
      THEN parseArgs(args, i + 2, [o EXCEPT !.toStep = parseIntAt(args, i + 1)])
    ELSE IF startsWith(arg, "--") THEN [o EXCEPT !.unknown = TRUE]
    ELSE parseArgs(args, i + 1, o)

\* specificStep && (specificStep < 1 || specificStep > 4), and the same for
\* skipStep (lines 412, 417)
stepInvalid(v) == truthy(v) /\ (lessThan(v, Number(1)) \/ greaterThan(v, Number(4)))

\* line 422
rangeInvalid(from, to) ==
  \/ lessThan(from, Number(1)) \/ greaterThan(from, Number(4))
  \/ lessThan(to, Number(1)) \/ greaterThan(to, Number(4))
  \/ greaterThan(from, to)

\* for (let step = fromStep; step <= toStep; step++) with the skip test
\* (lines 443-448): the loop body never runs when a bound is NaN
rangeSteps(from, to, skip) ==
  IF from.kind = "NaN" \/ to.kind = "NaN" \/ from.n > to.n THEN <<>>
  ELSE SelectSeq([k \in 1..(to.n - from.n + 1) |-> from.n + k - 1],
                 LAMBDA step : strictEquals(skip, Null) \/ ~strictEquals(Number(step), skip))

\* the script of each step (executeStep, lines 278-303)
steps ==
  <<"extract-wcag-issues.js", "generate-issue-summaries.js",
    "consolidate-wcag-summaries.js", "convert-to-openacr.js">>

\* A mutant of selectedSteps: --step is ignored.
selectedStepsRangeOnly(o) == rangeSteps(o.fromStep, o.toStep, o.skipStep)

\* what `options` select (lines 433-448)
selectedSteps(o) ==
  IF truthy(o.specificStep) THEN <<o.specificStep.n>>
  ELSE rangeSteps(o.fromStep, o.toStep, o.skipStep)

\* the values given to an option on the command lines of the model
OptionValues == {"0", "1", "2", "3", "4", "5", "abc"}

StepOptions == {"--step", "--skip", "--from", "--to"}

CommandLines ==
  {<<>>, <<"--dry-run">>, <<"--help">>, <<"--verbose">>, <<"--bogus">>}
  \cup {<<opt>> : opt \in StepOptions}
  \cup {<<opt, v>> : opt \in StepOptions, v \in OptionValues}
  \cup {<<"--dry-run", opt, v>> : opt \in {"--step", "--skip"}, v \in {"0", "2", "5"}}
  \cup {<<"--from", a, "--to", b>> : a \in {"2", "3"}, b \in {"1", "3"}}
  \cup {<<"--step", n, opt, v>> : n \in {"1", "3"}, opt \in {"--from", "--to", "--skip"},
                                  v \in {"1", "3", "4"}}
  \cup {<<"--from", a, "--to", b, "--skip", c>> : a \in {"1", "2"}, b \in {"3", "4"},
                                                 c \in {"1", "3"}}

\* the exit codes of a stage process
ExitCodes == {0, 1}

OrchestratorInit ==
  /\ opc = "start"
  /\ oArgs \in CommandLines
  /\ hasApiKey \in BOOLEAN
  /\ options = DefaultOptions
  /\ stepsToRun = <<>>
  /\ oIdx = 1
  /\ spawnLog = <<>>
  /\ oExit = -1

OrchestratorIdle ==
  /\ opc = "idle"
  /\ oArgs = <<>>
  /\ hasApiKey = FALSE
  /\ options = DefaultOptions
  /\ stepsToRun = <<>>
  /\ oIdx = 1
  /\ spawnLog = <<>>
  /\ oExit = -1

\* process.exit(code), or the end of main
exits(code) ==
  /\ opc' = "exited"
  /\ oExit' = code

\* main up to its step loop: the arguments are parsed and validated, the
\* prerequisites checked and the steps selected (lines 359-454)
ParseAndSelect ==
  /\ opc = "start"
  /\ LET o == parseArgs(oArgs, 1, DefaultOptions)
         selected == selectedSteps(o)
         needsKey == \E k \in 1..Len(selected) : selected[k] = 2
     IN  /\ options' = o
         /\ IF o.unknown THEN exits(1) /\ UNCHANGED stepsToRun
            ELSE IF o.showHelp THEN exits(0) /\ UNCHANGED stepsToRun
            ELSE IF stepInvalid(o.specificStep) \/ stepInvalid(o.skipStep)
                    \/ rangeInvalid(o.fromStep, o.toStep)
              THEN exits(1) /\ UNCHANGED stepsToRun
            ELSE IF needsKey /\ ~hasApiKey /\ ~o.dryRun THEN exits(1) /\ UNCHANGED stepsToRun
            ELSE /\ stepsToRun' = selected
                 /\ opc' = "loop"
                 /\ UNCHANGED oExit
  /\ UNCHANGED <<nonOrchestrator, oArgs, hasApiKey, oIdx, spawnLog>>

\* executeStep with dryRun: the command is only logged (lines 314-317)
DryRunStep ==
  /\ opc = "loop"
  /\ oIdx <= Len(stepsToRun)
  /\ options.dryRun
  /\ oIdx' = oIdx + 1
  /\ UNCHANGED <<nonOrchestrator, opc, oArgs, hasApiKey, options, stepsToRun, spawnLog, oExit>>

\* executeStep calls runCommand: the stage process is spawned (lines 339,
\* 214-222)
SpawnStep ==
  /\ opc = "loop"
  /\ oIdx <= Len(stepsToRun)
  /\ ~options.dryRun
  /\ spawnLog' = Append(spawnLog, [step |-> stepsToRun[oIdx],
                                   script |-> steps[stepsToRun[oIdx]],
                                   ended |-> "running", code |-> -1])
  /\ opc' = "child"
  /\ UNCHANGED <<nonOrchestrator, oArgs, hasApiKey, options, stepsToRun, oIdx, oExit>>

\* A mutant of rejects: a non-zero exit code resolves as well.
rejectsNever(code) == FALSE

\* child.on('close'): the promise is rejected unless code === 0
rejects(code) == code # 0

\* the stage process exits (lines 224-232); a rejection reaches the catch of
\* main, which exits with 1 (lines 476-479)
ChildCloses ==
  /\ opc = "child"
  /\ \E code \in ExitCodes :
       /\ spawnLog' = [spawnLog EXCEPT ![Len(spawnLog)] =
                         [@ EXCEPT !.ended = "closed", !.code = code]]
       /\ IF rejects(code)
          THEN exits(1) /\ UNCHANGED oIdx
          ELSE opc' = "loop" /\ oIdx' = oIdx + 1 /\ UNCHANGED oExit
  /\ UNCHANGED <<nonOrchestrator, oArgs, hasApiKey, options, stepsToRun>>

\* the stage process could not be spawned: child.on('error') rejects (lines
\* 234-237)
ChildError ==
  /\ opc = "child"
  /\ spawnLog' = [spawnLog EXCEPT ![Len(spawnLog)] = [@ EXCEPT !.ended = "error"]]
  /\ exits(1)
  /\ UNCHANGED <<nonOrchestrator, oArgs, hasApiKey, options, stepsToRun, oIdx>>

\* every selected step is done: main returns (lines 460-475)
WorkflowEnds ==
  /\ opc = "loop"
  /\ oIdx > Len(stepsToRun)
  /\ exits(0)
  /\ UNCHANGED <<nonOrchestrator, oArgs, hasApiKey, options, stepsToRun, oIdx, spawnLog>>

OrchestratorNext ==
  \/ ParseAndSelect
  \/ DryRunStep
  \/ SpawnStep
  \/ ChildCloses
  \/ ChildError
  \/ WorkflowEnds

(***************************************************************************)
(* CSV artifacts: escapeCSV                                                *)
(***************************************************************************)

\* escapeCSV (generate-issue-summaries.js lines 560-573): null and undefined
\* are written as the empty field; a field with a quote, a comma or a line
\* break is wrapped in quotes with its quotes doubled
escapeCSV(field) ==
  IF field = undefined THEN ""
  ELSE IF includes(field, "\"") \/ includes(field, ",") \/ includes(field, "\n")
          \/ includes(field, "\r")
    THEN "\"" \o replaceAll(field, "\"", "\"\"") \o "\""
  ELSE field

(***************************************************************************)
(* Collector: the criterion loop of generateDetailedIssuesList, its        *)
(* tallies and its pauses                                                  *)
(***************************************************************************)

\* wcagCriteria.length in this part of the model
MaxCriteria == 7

\* what extractIssuesFromCriteria did: it returned issues, it returned [] for
\* a page without issues, or it returned [] after giving up (the 403 chain
\* was exhausted, lines 236-240, or a request threw, lines 299-302)
Outcomes == {"issues", "empty", "abandoned"}

\* Math.max(15000 - (successCount * 1000), 5000)
baseDelayOf(n) == IF 15000 - n * 1000 > 5000 THEN 15000 - n * 1000 ELSE 5000

\* successCount > 0 && successCount % 5 === 0 (line 511)
longPauseDue(n) == n > 0 /\ n % 5 = 0

CadenceInit ==
  /\ kpc = "loop"
  /\ ki = 0
  /\ outcomes = <<>>
  /\ kProcessedCount = 0
  /\ kSuccessCount = 0
  /\ kBlockedCount = 0
  /\ baseDelay = 0
  /\ longPauses = <<>>

CadenceIdle ==
  /\ kpc = "idle"
  /\ ki = 0
  /\ outcomes = <<>>
  /\ kProcessedCount = 0
  /\ kSuccessCount = 0
  /\ kBlockedCount = 0
  /\ baseDelay = 0
  /\ longPauses = <<>>

\* one pass of the loop body (lines 475-516).  extractIssuesFromCriteria
\* catches every error itself and returns an array, so the try block always
\* completes and the catch block of the loop (blockedCount++) is not entered
loopBody(outcome) ==
  LET succeeded == IF outcome = "issues" THEN kSuccessCount + 1 ELSE kSuccessCount
      waits == ki < MaxCriteria - 1
  IN  /\ kpc = "loop"
      /\ ki < MaxCriteria
      /\ outcomes' = Append(outcomes, outcome)
      /\ kSuccessCount' = succeeded
      /\ kProcessedCount' = kProcessedCount + 1
      /\ baseDelay' = IF waits THEN baseDelayOf(succeeded) ELSE baseDelay
      /\ longPauses' = IF waits /\ longPauseDue(succeeded)
                       THEN Append(longPauses, [after |-> ki, successCount |-> succeeded])
                       ELSE longPauses
      /\ ki' = ki + 1
      /\ UNCHANGED <<nonCadence, kpc, kBlockedCount>>

CriterionYieldsIssues == loopBody("issues")

CriterionYieldsNothing == loopBody("empty")

CriterionAbandoned == loopBody("abandoned")

\* the loop ends and the final summary is printed (lines 518-531)
LoopEnds ==
  /\ kpc = "loop"
  /\ ki = MaxCriteria
  /\ kpc' = "done"
  /\ UNCHANGED <<nonCadence, ki, outcomes, kProcessedCount, kSuccessCount, kBlockedCount,
                 baseDelay, longPauses>>

CadenceNext ==
  \/ CriterionYieldsIssues
  \/ CriterionYieldsNothing
  \/ CriterionAbandoned
  \/ LoopEnds

\* rows of one artifact
MaxCsvRows == 2

\* the header line of the model's artifact
csvHeaders == <<"Issue ID", "ACR Note">>

\* field contents: plain, with a comma, with quotes, with a line break
FieldTexts == {"a", "x,y", "say \"hi\"", "one\ntwo"}

CsvRowsSet == [1..Len(csvHeaders) -> FieldTexts]

\* row.join(',') + '\n' over the escaped fields of every row, behind the
\* header line (generate-issue-summaries.js lines 523-539)
RECURSIVE csvLines(_)
csvLines(rows) ==
  IF rows = <<>> THEN ""
  ELSE join([k \in 1..Len(Head(rows)) |-> escapeCSV(Head(rows)[k])], ",") \o "\n"
         \o csvLines(Tail(rows))

csvText(rows) == join(csvHeaders, ",") \o "\n" \o csvLines(rows)

\* parseCSVLine (lines 625-656): the character loop from position i on
RECURSIVE parseCSVLineFrom(_, _, _, _, _)
parseCSVLineFrom(line, i, current, inQuotes, values) ==
  IF i >= Len(line) THEN Append(values, trim(current))
  ELSE LET char == charAt(line, i) IN
    IF char = "\""
    THEN IF inQuotes /\ i + 1 < Len(line) /\ charAt(line, i + 1) = "\""
         THEN parseCSVLineFrom(line, i + 2, current \o "\"", inQuotes, values)
         ELSE parseCSVLineFrom(line, i + 1, current, ~inQuotes, values)
    ELSE IF char = "," /\ ~inQuotes
    THEN parseCSVLineFrom(line, i + 1, "", inQuotes, Append(values, trim(current)))
    ELSE parseCSVLineFrom(line, i + 1, current \o char, inQuotes, values)

parseCSVLine(line) == parseCSVLineFrom(line, 0, "", FALSE, <<>>)

\* parseCSV (lines 605-622): the text is split at every line break, blank
\* lines are dropped, and a line is kept when it has as many values as the
\* header line has names; a row is given as its values in header order
parseCSV(csvContent) ==
  LET lines == SelectSeq(split(csvContent, "\n"), LAMBDA line : trim(line) # "")
      headers == split(lines[1], ",")
      rows == [k \in 1..(Len(lines) - 1) |-> parseCSVLine(lines[k + 1])]
  IN  SelectSeq(rows, LAMBDA values : Len(values) = Len(headers))

CsvInit ==
  /\ vpc = "rows"
  /\ rowsToWrite \in UNION {[1..n -> CsvRowsSet] : n \in 0..MaxCsvRows}
  /\ csvOutput = ""
  /\ parsedRows = <<>>

CsvIdle ==
  /\ vpc = "idle"
  /\ rowsToWrite = <<>>
  /\ csvOutput = ""
  /\ parsedRows = <<>>

\* the writing stage writes its artifact
WriteCsvFile ==
  /\ vpc = "rows"
  /\ csvOutput' = csvText(rowsToWrite)
  /\ vpc' = "written"
  /\ UNCHANGED <<nonCsv, rowsToWrite, parsedRows>>

\* the next stage reads it
ReadCsvFile ==
  /\ vpc = "written"
  /\ parsedRows' = parseCSV(csvOutput)
  /\ vpc' = "parsed"
  /\ UNCHANGED <<nonCsv, rowsToWrite, csvOutput>>

CsvNext == WriteCsvFile \/ ReadCsvFile

(***************************************************************************)
(* Tier: the level of one criterion code in the Collector and the Renderer  *)
(***************************************************************************)

TierInit ==
  /\ tpc = "listed"
  /\ tierIndex \in 1..Len(wcagCriteria)
  /\ collectorLevel = ""
  /\ rendererLevel = ""

TierIdle ==
  /\ tpc = "idle"
  /\ tierIndex = 0
  /\ collectorLevel = ""
  /\ rendererLevel = ""

\* the Collector reads the code's entry of its static list
CollectorTagsLevel ==
  /\ tpc = "listed"
  /\ collectorLevel' = wcagCriteria[tierIndex].level
  /\ tpc' = "tagged"
  /\ UNCHANGED <<nonTier, tierIndex, rendererLevel>>

\* the Renderer skips a code of wcag22Criteria
RendererExcludes ==
  /\ tpc = "tagged"
  /\ arrayIncludes(wcag22Criteria, convertWCAGFormat(wcagCriteria[tierIndex].code))
  /\ tpc' = "dropped"
  /\ UNCHANGED <<nonTier, tierIndex, collectorLevel, rendererLevel>>

\* the Renderer files any other code under getWCAGLevel of its dotted form
RendererBuckets ==
  /\ tpc = "tagged"
  /\ LET wcagNum == convertWCAGFormat(wcagCriteria[tierIndex].code) IN
       /\ ~arrayIncludes(wcag22Criteria, wcagNum)
       /\ rendererLevel' = getWCAGLevel(wcagNum)
  /\ tpc' = "bucketed"
  /\ UNCHANGED <<nonTier, tierIndex, collectorLevel>>

TierNext == CollectorTagsLevel \/ RendererExcludes \/ RendererBuckets

(***************************************************************************)
(* Specifications: one stage runs, the other stages' variables stay put    *)
(***************************************************************************)

\* the Renderer's variables before the converter is started
RendererIdle ==
  /\ consolidatedData = <<>>
  /\ templateExists = FALSE
  /\ rpc = "idle"
  /\ ridx = 1
  /\ levelACriteria = <<>>
  /\ levelAACriteria = <<>>
  /\ levelAAACriteria = <<>>
  /\ yamlSections = NoSections
  /\ run = 1
  /\ firstSections = NoSections

\* the Collector's variables before the extraction is started
CollectorIdle ==
  /\ cpc = "idle"
  /\ ci = 1
  /\ allIssues = <<>>
  /\ processedCount = 0
  /\ successCount = 0
  /\ blockedCount = 0
  /\ csvRows = <<>>

\* the Aggregator's variables before the consolidation is started
AggregatorIdle ==
  /\ detailedIssues = <<>>
  /\ summaryIds = {}
  /\ wcagGroups = <<>>
  /\ apc = "idle"
  /\ gi = 1
  /\ attempt = 1
  /\ only503 = TRUE
  /\ results = <<>>
  /\ failedEntries = <<>>
  /\ aProcessedCount = 0
  /\ lastCall = NoCall
  /\ acrRows = <<>>

\* the Summarizer's variables before generateSummaries is called
SummarizerIdle ==
  /\ spc = "idle"
  /\ sAttempt = 1
  /\ responseText = null
  /\ summaries = Pending

InitRenderer == RendererInit /\ CollectorIdle /\ AggregatorIdle /\ SummarizerIdle /\ ProcessIssuesIdle /\ ExtractIdle /\ FetchIdle /\ RunIdle /\ OrchestratorIdle /\ CadenceIdle /\ CsvIdle /\ TierIdle

InitCollector == CollectorInit /\ RendererIdle /\ AggregatorIdle /\ SummarizerIdle /\ ProcessIssuesIdle /\ ExtractIdle /\ FetchIdle /\ RunIdle /\ OrchestratorIdle /\ CadenceIdle /\ CsvIdle /\ TierIdle

InitAggregator == AggregatorInit /\ RendererIdle /\ CollectorIdle /\ SummarizerIdle /\ ProcessIssuesIdle /\ ExtractIdle /\ FetchIdle /\ RunIdle /\ OrchestratorIdle /\ CadenceIdle /\ CsvIdle /\ TierIdle

InitSummarizer == SummarizerInit /\ RendererIdle /\ CollectorIdle /\ AggregatorIdle /\ ProcessIssuesIdle /\ ExtractIdle /\ FetchIdle /\ RunIdle /\ OrchestratorIdle /\ CadenceIdle /\ CsvIdle /\ TierIdle

InitProcessIssues == ProcessIssuesInit /\ RendererIdle /\ CollectorIdle /\ AggregatorIdle /\ SummarizerIdle /\ ExtractIdle /\ FetchIdle /\ RunIdle /\ OrchestratorIdle /\ CadenceIdle /\ CsvIdle /\ TierIdle

InitExtract == ExtractInit /\ ProcessIssuesIdle /\ RendererIdle /\ CollectorIdle /\ AggregatorIdle /\ SummarizerIdle /\ FetchIdle /\ RunIdle /\ OrchestratorIdle /\ CadenceIdle /\ CsvIdle /\ TierIdle

InitFetch == FetchInit /\ ProcessIssuesIdle /\ ExtractIdle /\ RendererIdle /\ CollectorIdle /\ AggregatorIdle /\ SummarizerIdle /\ RunIdle /\ OrchestratorIdle /\ CadenceIdle /\ CsvIdle /\ TierIdle

InitRun == RunInit /\ ProcessIssuesIdle /\ ExtractIdle /\ FetchIdle /\ RendererIdle /\ CollectorIdle /\ AggregatorIdle /\ SummarizerIdle /\ OrchestratorIdle /\ CadenceIdle /\ CsvIdle /\ TierIdle

InitOrchestrator == OrchestratorInit /\ ProcessIssuesIdle /\ ExtractIdle /\ FetchIdle /\ RunIdle /\ RendererIdle /\ CollectorIdle /\ AggregatorIdle /\ SummarizerIdle /\ CadenceIdle /\ CsvIdle /\ TierIdle

InitCadence == CadenceInit /\ ProcessIssuesIdle /\ ExtractIdle /\ FetchIdle /\ RunIdle /\ OrchestratorIdle /\ RendererIdle /\ CollectorIdle /\ AggregatorIdle /\ SummarizerIdle /\ CsvIdle /\ TierIdle

InitCsv == CsvInit /\ ProcessIssuesIdle /\ ExtractIdle /\ FetchIdle /\ RunIdle /\ OrchestratorIdle /\ CadenceIdle /\ RendererIdle /\ CollectorIdle /\ AggregatorIdle /\ SummarizerIdle /\ TierIdle

InitTier == TierInit /\ ProcessIssuesIdle /\ ExtractIdle /\ FetchIdle /\ RunIdle /\ OrchestratorIdle /\ CadenceIdle /\ CsvIdle /\ RendererIdle /\ CollectorIdle /\ AggregatorIdle /\ SummarizerIdle

SpecRenderer == InitRenderer /\ [][RendererNext]_vars

SpecCollector == InitCollector /\ [][CollectorNext]_vars

SpecAggregator == InitAggregator /\ [][AggregatorNext]_vars

SpecSummarizer == InitSummarizer /\ [][SummarizerNext]_vars

SpecProcessIssues == InitProcessIssues /\ [][ProcessIssuesNext]_vars

SpecExtract == InitExtract /\ [][ExtractNext]_vars

\* a request that was made is answered or fails: the call goes on
SpecExtractFair == SpecExtract /\ WF_vars(ExtractNext)

SpecFetch == InitFetch /\ [][FetchNext]_vars

SpecRun == InitRun /\ [][RunNext]_vars

SpecOrchestrator == InitOrchestrator /\ [][OrchestratorNext]_vars

SpecCadence == InitCadence /\ [][CadenceNext]_vars

SpecCsv == InitCsv /\ [][CsvNext]_vars

SpecTier == InitTier /\ [][TierNext]_vars

(***************************************************************************)
(* Claims                                                                  *)
(***************************************************************************)

\* ---- Renderer ----

AllCriteria == levelACriteria \o levelAACriteria \o levelAAACriteria

\* rows the first forEach has been through in the current call
ProcessedRows ==
  IF rpc \in {"emit", "done"} THEN 1..Len(consolidatedData)
  ELSE IF rpc = "items" THEN 1..(ridx - 1)
  ELSE {}

DottedOf(i) == convertWCAGFormat(consolidatedData[i].sc)

InNaList(code) == \E k \in 1..Len(naList) : naList[k] = code

Excluded(code) == code \in {"2.4.11", "2.4.12", "2.4.13", "2.5.7", "2.5.8", "3.2.6", "3.3.7"}

\* the criteria built from row i
CriteriaOf(i) == {k \in 1..Len(AllCriteria) : AllCriteria[k].item = i}

AllEntries == yamlSections.a \o yamlSections.aa \o yamlSections.aaa

HasCanned(code) == \E k \in 1..Len(wcagPositiveStatements) : wcagPositiveStatements[k][1] = code

CannedOf(code) ==
  wcagPositiveStatements[CHOOSE k \in 1..Len(wcagPositiveStatements) :
                           wcagPositiveStatements[k][1] = code][2]

\* C1: every processed row whose dotted code is in the forced-not-applicable
\* list and not excluded has a rendered entry with adherence 'not-applicable'
\* and notes exactly 'Not applicable.', whatever its upstream level and
\* narrative; the emitted document entry of such a code says the same.
C1_ForcedNotApplicable ==
  /\ \A i \in ProcessedRows :
       (InNaList(DottedOf(i)) /\ ~Excluded(DottedOf(i))) =>
         /\ CriteriaOf(i) # {}
         /\ \A k \in CriteriaOf(i) :
              /\ AllCriteria[k].adherenceLevel = "not-applicable"
              /\ AllCriteria[k].notes = "Not applicable."
  /\ rpc = "done" =>
       \A k \in 1..Len(AllEntries) :
         InNaList(AllEntries[k].num) =>
           /\ AllEntries[k].components[1].level = "not-applicable"
           /\ AllEntries[k].components[1].notes = "Not applicable."

\* C1 witness: the row {wcag221, SUPPORTED, "X"} has been rendered as not-applicable
C1_Witness ==
  /\ rpc = "done"
  /\ \E i \in 1..Len(consolidatedData) :
       /\ consolidatedData[i].sc = "wcag221"
       /\ consolidatedData[i].assessment = "SUPPORTED"
       /\ \E k \in CriteriaOf(i) : AllCriteria[k].adherenceLevel = "not-applicable"

\* C2: a rendered row with adherence 'supports' whose code has a canned
\* positive statement carries that statement verbatim (and not its upstream
\* narrative); a rendered row whose adherence is not 'supports' never carries
\* the canned statement of its code.
C2_CannedStatement ==
  \A i \in ProcessedRows : \A k \in CriteriaOf(i) :
    LET c == AllCriteria[k] IN
    /\ (c.adherenceLevel = "supports" /\ HasCanned(c.num)) =>
         (c.notes = CannedOf(c.num) /\ c.notes # consolidatedData[i].summary)
    /\ (c.adherenceLevel # "supports" /\ HasCanned(c.num)) => c.notes # CannedOf(c.num)

\* C2 witness: {wcag111, SUPPORTED, "X"} rendered with the canned 1.1.1 text
C2_Witness ==
  /\ rpc = "done"
  /\ \E k \in 1..Len(AllCriteria) :
       /\ AllCriteria[k].item # 0
       /\ AllCriteria[k].num = "1.1.1"
       /\ AllCriteria[k].adherenceLevel = "supports"
       /\ consolidatedData[AllCriteria[k].item].summary = "X"
       /\ AllCriteria[k].notes = CannedOf("1.1.1")

\* at most one row per (dotted) criterion code
OneRowPerCode ==
  \A i, j \in 1..Len(consolidatedData) : DottedOf(i) = DottedOf(j) => i = j

Synthesized(c) ==
  /\ c.adherenceLevel = "not-applicable"
  /\ c.notes = "Not applicable."
  /\ c.issueCount = 0
  /\ c.issueIds = ""

\* C3: with at most one row per criterion code (no rows included), once the
\* lists are complete every forced-not-applicable code occurs exactly once
\* among the criteria of the three tiers, and in the emitted sections; a code
\* without an upstream row is the synthesized zero-member entry.
C3_Exhaustive ==
  (rpc \in {"emit", "done"} /\ OneRowPerCode) =>
    \A n \in 1..Len(naList) :
      LET at == {k \in 1..Len(AllCriteria) : AllCriteria[k].num = naList[n]} IN
      /\ Cardinality(at) = 1
      /\ (\A i \in 1..Len(consolidatedData) : DottedOf(i) # naList[n]) =>
           \A k \in at : Synthesized(AllCriteria[k])
      /\ rpc = "done" =>
           Cardinality({k \in 1..Len(AllEntries) : AllEntries[k].num = naList[n]}) = 1

\* C3 witness: a finished run on an artifact that has a row for 2.2.1 and none
\* for the other forced codes
C3_Witness ==
  /\ rpc = "done"
  /\ OneRowPerCode
  /\ Len(consolidatedData) = MaxRows
  /\ \E i \in 1..Len(consolidatedData) : DottedOf(i) = "2.2.1"
  /\ \E k \in 1..Len(AllCriteria) : AllCriteria[k].num = "1.2.1" /\ AllCriteria[k].item = 0

InTable(table, code) == \E k \in 1..Len(table) : table[k] = code

Occurrences(list, i) == Cardinality({k \in 1..Len(list) : list[k].item = i})

\* C4: every rendered criterion is in exactly one of the three lists; the A
\* list holds only codes of the A table, the AAA list only codes of the AAA
\* table, and a code of none of the three tables is in the AA list.
C4_TierBucketing ==
  /\ \A i \in ProcessedRows :
       ~Excluded(DottedOf(i)) =>
         /\ Occurrences(levelACriteria, i) + Occurrences(levelAACriteria, i)
              + Occurrences(levelAAACriteria, i) = 1
         /\ (/\ ~InTable(levelATable, DottedOf(i))
             /\ ~InTable(levelAATable, DottedOf(i))
             /\ ~InTable(levelAAATable, DottedOf(i)))
              => Occurrences(levelAACriteria, i) = 1
  /\ \A k \in 1..Len(levelACriteria) : InTable(levelATable, levelACriteria[k].num)
  /\ \A k \in 1..Len(levelAAACriteria) : InTable(levelAAATable, levelAAACriteria[k].num)
  /\ \A k \in 1..Len(levelAACriteria) :
       /\ ~InTable(levelATable, levelAACriteria[k].num)
       /\ ~InTable(levelAAATable, levelAACriteria[k].num)
  /\ rpc \in {"emit", "done"} =>
       \A n \in 1..Len(naList) :
         \A k1, k2 \in 1..Len(AllCriteria) :
           (/\ AllCriteria[k1].item = 0 /\ AllCriteria[k2].item = 0
            /\ AllCriteria[k1].num = naList[n] /\ AllCriteria[k2].num = naList[n]) => k1 = k2

\* C4 witness: the code 9.9.9 (in no table) and the unconverted wcag5123 sit
\* in the AA list of a finished run, next to an A and an AAA criterion
C4_Witness ==
  /\ rpc = "done"
  /\ \E k \in 1..Len(levelAACriteria) : levelAACriteria[k].num \in {"9.9.9", "wcag5123"}
  /\ Len(levelACriteria) > 0
  /\ \E i \in 1..Len(consolidatedData) : consolidatedData[i].sc = "wcag999"

\* the level mapping as the claim words it
ClaimedAdherence(assessment) ==
  IF assessment = "SUPPORTED" THEN "supports"
  ELSE IF assessment = "PARTIALLY_SUPPORTED" THEN "partially-supports"
  ELSE IF assessment = "NOT_SUPPORTED" THEN "does-not-support"
  ELSE IF assessment = "NOT_APPLICABLE" THEN "not-applicable"
  ELSE "not-evaluated"

\* C5 (as claimed): a row that is neither excluded nor forced-not-applicable
\* is rendered with the claimed level mapping (every other upstream value
\* giving 'not-evaluated'), and, unless the canned positive text applies, with
\* its upstream narrative verbatim, for every upstream narrative.
C5_LevelMappingAsClaimed ==
  \A i \in ProcessedRows :
    (~Excluded(DottedOf(i)) /\ ~InNaList(DottedOf(i))) =>
      \A k \in CriteriaOf(i) :
        LET c == AllCriteria[k]
            row == consolidatedData[i]
        IN  /\ c.adherenceLevel = ClaimedAdherence(row.assessment)
            /\ ~(c.adherenceLevel = "supports" /\ HasCanned(c.num)) => c.notes = row.summary

C7_NoDuplicateRows ==
  cpc = "done" =>
    \A i, j \in 1..Len(csvRows) :
      (/\ csvRows[i].wcagCriteria = csvRows[j].wcagCriteria
       /\ csvRows[i].issueId = csvRows[j].issueId) => i = j

\* ---- Aggregator ----

\* C8 (as claimed): a generateWCAGSummary call of the main loop in which
\* every attempt of fetchWithRetry was answered 503 returns the level
\* REQUIRES_REVIEW with the 'Manual review required' placeholder, and its
\* criterion is on failedEntries.
C8_AllBusyGivesSentinel ==
  (lastCall.only503 /\ lastCall.pass = "main") =>
    /\ lastCall.assessment = "REQUIRES_REVIEW"
    /\ includes(lastCall.summary, "Manual review required")
    /\ \E k \in 1..Len(failedEntries) : failedEntries[k].wcagSC = lastCall.wcagSC

CodesOf(rows) == {rows[k].wcagSC : k \in 1..Len(rows)}

InputCodes == {detailedIssues[k].sc : k \in 1..Len(detailedIssues)}

\* exactly one row for each criterion code of the Collector file
OneRowEach(rows) ==
  /\ CodesOf(rows) = InputCodes
  /\ Len(rows) = Cardinality(InputCodes)

\* C9: once the main loop is over, and during and after the retry pass,
\* results holds exactly one row for each distinct criterion code of the
\* Collector file; the written rows are those rows in strictly ascending
\* order of criterion code.
C9_OneRowPerCodeSorted ==
  /\ apc \in {"retry", "done"} => OneRowEach(results)
  /\ apc = "done" =>
       /\ OneRowEach(acrRows)
       /\ \A k \in 1..(Len(acrRows) - 1) : localeLess(acrRows[k].wcagSC, acrRows[k + 1].wcagSC)

\* C9 witness: a finished run on a file whose codes are not in ascending
\* order, in which the retry pass has replaced a row and the two written
\* rows carry different levels
C9_Witness ==
  /\ apc = "done"
  /\ Len(detailedIssues) = MaxDetailed
  /\ detailedIssues[1].sc = "wcag142"
  /\ Len(acrRows) = 2
  /\ Len(failedEntries) > 0
  /\ lastCall.pass = "retry"
  /\ acrRows[1].assessment = "ERROR"
  /\ acrRows[2].assessment = "SUPPORTED"

\* ---- Summarizer ----

\* the four labels with the field and the placeholder of each
SummaryLabels ==
  { <<"ACR_NOTE:", "acrNote", "Unable to generate ACR note">>,
    <<"DEVELOPER_NOTE:", "developerNote", "Unable to generate developer note">>,
    <<"TITLE_ASSESSMENT:", "titleAssessment", "Unable to assess title">>,
    <<"WCAG_ASSESSMENT:", "wcagAssessment", "Unable to assess WCAG classification">> }

\* C10: when generateSummaries has parsed a response text, it has returned an
\* object with the four fields, and the field of every label the text lacks
\* is the fixed placeholder of that label; whatever the provider answered,
\* generateSummaries returns an object (no exception leaves it).
C10_MissingLabelPlaceholder ==
  spc = "done" =>
    /\ {"acrNote", "developerNote", "titleAssessment"} \subseteq DOMAIN summaries
    /\ responseText # null =>
         \A l \in SummaryLabels :
           /\ l[2] \in DOMAIN summaries
           /\ ~includes(responseText, l[1]) => summaries[l[2]] = l[3]

\* C10 witness: a response with the other three labels and no DEVELOPER_NOTE:
\* has been parsed; the developer note is the placeholder, the others are not
C10_Witness ==
  /\ spc = "done"
  /\ responseText # null
  /\ includes(responseText, "ACR_NOTE:")
  /\ ~includes(responseText, "DEVELOPER_NOTE:")
  /\ includes(responseText, "TITLE_ASSESSMENT:")
  /\ includes(responseText, "WCAG_ASSESSMENT:")
  /\ summaries.developerNote = "Unable to generate developer note"
  /\ startsWith(summaries.acrNote, "Affects people without vision.")
  /\ summaries.titleAssessment # "Unable to assess title"
  /\ summaries.wcagAssessment = "Affects people without vision."

\* ---- Summarizer: processIssues ----

\* C11: whatever fetchIssueContent and generateSummaries returned for each
\* record, results holds one row for every record the loop has been through,
\* in input order and with the record's issue id, processedCount + errorCount
\* is the number of those records, and the written file holds one row per
\* input record in input order.
C11_OneRowPerRecord ==
  LET handled == IF ppc = "done" THEN Len(sIssues) ELSE sIdx - 1 IN
  /\ ppc # "idle" =>
       /\ Len(sResults) = handled
       /\ \A k \in 1..Len(sResults) : sResults[k].issueId = sIssues[k].issueId
       /\ sProcessedCount + errorCount = handled
  /\ ppc = "done" =>
       /\ Len(summaryRows) = Len(sIssues)
       /\ \A k \in 1..Len(summaryRows) : summaryRows[k].issueId = sIssues[k].issueId

\* C11 witness: a finished run in which the first record failed (its detail
\* page could not be fetched) and the second record was processed
C11_Witness ==
  /\ ppc = "done"
  /\ Len(sIssues) = MaxIssues
  /\ startsWith(summaryRows[1].acrNote, "Error: ")
  /\ summaryRows[2].userAliases = "alice, bob"
  /\ errorCount = 1
  /\ sProcessedCount = 1

\* ---- Collector: extractIssuesFromCriteria ----

isPrefix(p, q) == Len(p) <= Len(q) /\ SubSeq(q, 1, Len(p)) = p

ResultOf(code) == results[CHOOSE k \in 1..Len(results) : results[k].wcagSC = code]

\* C13 (as claimed): when the run is over, the row of every criterion that
\* was queued for the deferred retry carries either the result of a retry
\* that succeeded or the sentinel REQUIRES_REVIEW with its placeholder: a
\* retry that failed never leaves level ERROR in the row.
C13_FailedRetryKeepsSentinel ==
  apc = "done" =>
    \A k \in 1..Len(failedEntries) :
      LET row == ResultOf(failedEntries[k].wcagSC) IN
      /\ row.assessment # "ERROR"
      /\ ~startsWith(row.summary, "Error generating summary: ")

\* ---- Renderer: exclusion ----

C15_ThrowsOnlyAfterLastAttempt ==
  fpc = "threw" =>
    /\ fAttempt = fRetries
    /\ fResult.message \in NetworkErrors
    /\ Len(fBackoffs) = fRetries - 1

\* C16 (as claimed): every record extractIssuesFromCriteria returns has gone
\* through fetchEnhancedMetadata, whether it came from the search page or
\* from the feed taken after a 403.
C16_EveryRecordEnhanced ==
  xpc = "returned" => \A k \in 1..Len(xReturned) : xReturned[k].enhanced

\* ---- Stage processes ----

\* the credential is in the .env file: a line GEMINI_API_KEY=<value>
KeyInEnvFile ==
  /\ dotEnv.exists
  /\ LET lines == split(dotEnv.content, "\n")
     IN  \E k \in 1..Len(lines) :
           startsWith(lines[k], "GEMINI_API_KEY=") /\ Len(lines[k]) > Len("GEMINI_API_KEY=")

KeyAbsent == envKey = "" /\ ~KeyInEnvFile

\* the artifact the stage reads is not there when the process starts (the
\* directory is only changed by the process's own write at its end)
InputMissing ==
  IF uStage = "Summarizer"
  THEN \/ ~resultsDir.exists
       \/ argv # <<>> /\ (IF endsWith(argv[1], ".csv") THEN argv[1] ELSE argv[1] \o ".csv")
                            \notin resultsDir.files
       \/ argv = <<>> /\ ~\E f \in resultsDir.files : startsWith(f, "wcag-detailed-issues_")
  ELSE IF uStage = "Aggregator"
  THEN \/ ~resultsDir.exists
       \/ ~\E f \in resultsDir.files : startsWith(f, "wcag-detailed-issues_")
       \/ ~\E f \in resultsDir.files : startsWith(f, "wcag-issue-summaries_")
  ELSE FALSE

HelpRequested == uStage = "Aggregator" /\ \E k \in 1..Len(argv) : argv[k] \in {"-h", "--help"}

FatalExit == upc = "exited" /\ exitCode = 1 /\ ~requested /\ ~wrote

\* the part of C17 about the stages that do not call the AI provider: the
\* Collector never fails at start-up, and the Renderer fails there only for
\* a missing input, whatever the credential
RunsWithoutCredential ==
  /\ (uStage = "Collector" /\ upc = "exited") => exitCode = 0
  /\ (uStage = "Renderer" /\ upc = "exited" /\ exitCode = 1) =>
        IF argv # <<>> THEN ~existsSync(resultsDir, argv[1])
        ELSE ~\E f \in resultsDir.files : startsWith(f, "wcag-acr-consolidated_")

\* C17 (as claimed): whenever the credential is absent or the input artifact
\* is missing, the Summarizer and the Aggregator exit with status 1 before
\* any request and any write; the Collector and the Renderer run without the
\* credential.
C17_FatalConfigurationAsClaimed ==
  /\ (upc # "ready" /\ uStage \in {"Summarizer", "Aggregator"} /\ (KeyAbsent \/ InputMissing))
       => FatalExit
  /\ RunsWithoutCredential

\* C17 (amended): as claimed, except when the Aggregator is started with -h
\* or --help: it then prints its usage and exits with status 0, still before
\* any request and any write, whether or not the credential and the inputs
\* are there.
C17_FatalConfiguration ==
  /\ (upc # "ready" /\ uStage \in {"Summarizer", "Aggregator"} /\ (KeyAbsent \/ InputMissing))
       => IF HelpRequested
          THEN upc = "exited" /\ exitCode = 0 /\ ~requested /\ ~wrote
          ELSE FatalExit
  /\ RunsWithoutCredential

\* the Aggregator has both of its inputs and exits for the missing credential
\* alone
C17_Witness ==
  /\ uStage = "Aggregator"
  /\ KeyAbsent
  /\ ~InputMissing
  /\ ~HelpRequested
  /\ FatalExit
  /\ runs = 2

\* C18 (as claimed): no stage process writes its artifact under a name that
\* is already in the results directory, so no earlier artifact is replaced,
\* also when two processes of one stage finish within the same clock minute.
C18_NoArtifactOverwritten == ~overwrote

\* C27 (as claimed): every Collector process that completes has written its
\* artifact, also when no criterion yielded an issue.
C27_CollectorAlwaysWrites ==
  (uStage = "Collector" /\ upc = "exited" /\ exitCode = 0) => wrote

\* ---- Orchestrator ----

\* C19: the stage processes are spawned one at a time in ascending step
\* order, each only after the one before it has exited with code 0; once a
\* process exits non-zero or fails to spawn no other is started and the
\* orchestrator exits with 1; with --dry-run none is spawned; a run that ends
\* with status 0 outside --dry-run and --help has spawned exactly the
\* selected steps.
C19_Sequencing ==
  /\ \A k \in 1..(Len(spawnLog) - 1) :
       /\ spawnLog[k].step < spawnLog[k + 1].step
       /\ spawnLog[k].ended = "closed"
       /\ spawnLog[k].code = 0
  /\ \A k \in 1..Len(spawnLog) :
       (spawnLog[k].ended = "error" \/ (spawnLog[k].ended = "closed" /\ spawnLog[k].code # 0))
         => (k = Len(spawnLog) /\ opc = "exited" /\ oExit = 1)
  /\ (opc = "child") = (spawnLog # <<>> /\ spawnLog[Len(spawnLog)].ended = "running")
  /\ options.dryRun => spawnLog = <<>>
  /\ (opc = "exited" /\ oExit = 0 /\ ~options.dryRun /\ ~options.showHelp)
       => [k \in 1..Len(spawnLog) |-> spawnLog[k].step] = stepsToRun

\* steps 3 and 4 were selected; step 3 exited with 0, then step 4 was spawned
\* and exited with 1, and the orchestrator exited with 1
C19_Witness ==
  /\ oArgs = <<"--from", "3">>
  /\ Len(spawnLog) = 2
  /\ spawnLog[1].step = 3 /\ spawnLog[1].code = 0
  /\ spawnLog[2].step = 4 /\ spawnLog[2].code = 1
  /\ opc = "exited"
  /\ oExit = 1

\* a value that is not one of 1, 2, 3, 4 follows --step, --skip, --from or
\* --to (or nothing follows it), or the range given is reversed
givenTo(opt) ==
  {IF k < Len(oArgs) THEN oArgs[k + 1] ELSE "" : k \in {j \in 1..Len(oArgs) : oArgs[j] = opt}}

InvalidArguments ==
  \/ \E opt \in StepOptions : \E v \in givenTo(opt) : v \notin {"1", "2", "3", "4"}
  \/ \E a \in givenTo("--from"), b \in givenTo("--to") :
       /\ a \in {"1", "2", "3", "4"} /\ b \in {"1", "2", "3", "4"}
       /\ digitsValue(a) > digitsValue(b)

\* C20 (as claimed): an invalid value for --step, --skip, --from or --to, or
\* a reversed range, makes the orchestrator exit with status 1 before any
\* stage is run.
C20_InvalidArgumentsExit ==
  (opc # "start" /\ InvalidArguments) => (opc = "exited" /\ oExit = 1 /\ spawnLog = <<>>)

\* the one value given to an option, as a number; `otherwise` when the
\* option is not on the command line
valueOr(opt, otherwise) ==
  IF givenTo(opt) = {} THEN otherwise ELSE digitsValue(CHOOSE v \in givenTo(opt) : TRUE)

\* a command line without --help and unknown options whose option values
\* are all in 1..4 and whose range is not reversed
ValidLine ==
  /\ ~InvalidArguments
  /\ \A k \in 1..Len(oArgs) : oArgs[k] \notin {"--help", "-h", "--bogus"}

DryRunGiven == \E k \in 1..Len(oArgs) : oArgs[k] = "--dry-run"

\* the stages C21 says the command line selects
ExpectedSteps ==
  IF givenTo("--step") # {} THEN <<valueOr("--step", 0)>>
  ELSE SelectSeq(<<1, 2, 3, 4>>,
                 LAMBDA s : /\ valueOr("--from", 1) <= s
                            /\ s <= valueOr("--to", 4)
                            /\ s # valueOr("--skip", 0))

SpawnedSteps == [k \in 1..Len(spawnLog) |-> spawnLog[k].step]

C22_NoForeignSection ==
  (spc = "done" /\ responseText # null) =>
    \A l \in SummaryLabels, other \in SummaryLabels :
      (other # l /\ l[2] \in DOMAIN summaries) => ~includes(summaries[l[2]], other[1])

\* ---- Summarizer: error rows ----

\* the four summary fields of a row as escapeCSV writes them
WrittenSummaryFields(row) ==
  {escapeCSV(row.acrNote), escapeCSV(row.developerNote),
   escapeCSV(row.titleAssessment), escapeCSV(row.wcagAssessment)}

\* C23 (as claimed): the written row of a record whose AI call failed (its
\* compliance note is the error placeholder of generateSummaries) carries an
\* error placeholder in all four summary fields; none is written empty.
C23_ErrorRowsComplete ==
  ppc = "done" =>
    \A k \in 1..Len(summaryRows) :
      startsWith(summaryRows[k].acrNote, "Error generating ACR note: ")
        => \A f \in WrittenSummaryFields(summaryRows[k]) : startsWith(f, "Error ")

\* ---- Collector: criterion loop ----

\* C24 (as claimed): the 10-20 s pause is made once for each 5th success: no
\* two pauses are made at the same value of successCount.
C24_OnePausePerFifthSuccess ==
  \A a, b \in 1..Len(longPauses) :
    a # b => longPauses[a].successCount # longPauses[b].successCount

Abandoned == {k \in 1..Len(outcomes) : outcomes[k] = "abandoned"}

\* C29 (as claimed): when the loop has ended, processedCount + blockedCount
\* is the number of criteria, every abandoned criterion is counted in
\* blockedCount, and processedCount counts the others.
C29_FinalTally ==
  kpc = "done" =>
    /\ kProcessedCount + kBlockedCount = MaxCriteria
    /\ kBlockedCount = Cardinality(Abandoned)
    /\ kProcessedCount = MaxCriteria - Cardinality(Abandoned)

\* ---- Renderer: component slots ----

EmittedEntries ==
  {yamlSections.a[k] : k \in 1..Len(yamlSections.a)}
  \cup {yamlSections.aa[k] : k \in 1..Len(yamlSections.aa)}
  \cup {yamlSections.aaa[k] : k \in 1..Len(yamlSections.aaa)}

\* the slots of an entry that are not fixed to not-applicable with empty notes
RealSlots(entry) ==
  {k \in 1..Len(entry.components) :
     ~(entry.components[k].level = "not-applicable" /\ entry.components[k].notes = "\"\"")}

\* C25 (as claimed): every emitted criterion has the four slots web,
\* electronic-docs, software, authoring-tool, of which exactly one carries
\* the criterion's adherence and notes and the other three are
\* not-applicable with empty notes.
C25_OneRealSlot ==
  rpc = "done" =>
    \A entry \in EmittedEntries :
      /\ [k \in 1..Len(entry.components) |-> entry.components[k].name]
           = <<"web", "electronic-docs", "software", "authoring-tool">>
      /\ Cardinality(RealSlots(entry)) = 1

\* ---- CSV artifacts ----

\* C26 (as claimed): what parseCSV reads back is the rows that were written,
\* one record per row with the same field values.
C26_RoundTrip == vpc = "parsed" => parsedRows = rowsToWrite

\* ---- Tier ----

\* C28: a code of the Collector's list that the Renderer does not exclude is
\* filed by the Renderer under the tier the Collector's list gives it
C28_OneTierPerCode ==
  tpc = "bucketed" => collectorLevel = "Level " \o rendererLevel

\* ---- Summarizer: fetchWithRetry ----

\* what generateSummaries returns when fetchWithRetry has handed it undefined
ReturnedWithoutResponse ==
  spc = "done" /\ summaries = caughtSummaries(UndefinedResponseMessage)

\* C30: one call of fetchWithRetry makes at most `retries` attempts and ends
\* with an ok response or a thrown error, never by returning without a response
C30_DefiniteOutcome ==
  /\ sAttempt <= summarizerRetries
  /\ ~ReturnedWithoutResponse
====
